---- MODULE Spec2Model ----
(***************************************************************************)
(* Batch orchestration of the Hyperliquid scraping pipeline:               *)
(*   utils/circuitbreaker.py  CircuitBreaker                               *)
(*   main.py                  BatchStats, FailureRecord, write_to_influx   *)
(*   process/processor.py     DataProcessor, BatchProcessor                *)
(*   db/function.py           handle_db_errors, write_to_influx            *)
(*   fetch/utils.py           fetch_website                                *)
(*   process/liquidation.py   process_liquidation                          *)
(* SpecCB drives the CircuitBreaker alone with arbitrary call sequences    *)
(* and arbitrary delays between the calls.                                 *)
(* SpecFetch and SpecProcess drive DataProcessor.fetch_asset_data and      *)
(* DataProcessor.process_asset_data of one DataProcessor with arbitrary    *)
(* call sequences, collaborator answers and delays.                        *)
(* SpecLiq applies process_liquidation to any liquidation map.             *)
(* SpecWeb drives one call of fetch_website with any sequence of server    *)
(* answers.  SpecMerge merges batch statistics into a fresh BatchStats.    *)
(* SpecFanOut drives the concurrent fetch tasks of one batch.              *)
(* Spec drives one run of BatchProcessor.process_batches on a fresh        *)
(* BatchProcessor.  The environment may answer at most MaxFaults calls     *)
(* with something other than well-formed data.                             *)
(***************************************************************************)
EXTENDS Integers, Sequences, FiniteSets, TLC

VARIABLES
    failures,            \* CircuitBreaker.failures          (key -> count)
    last_failure_time,   \* CircuitBreaker.last_failure_time (key -> time)
    is_open,             \* CircuitBreaker.is_open           (key -> bool)
    now,                 \* datetime.now().timestamp()
    call,                \* the CircuitBreaker call made by the last step
    web,                 \* the fetch_website call in progress
    liq,                 \* the last process_liquidation call
    write_to_influx,     \* which write_to_influx the name is bound to:
                         \* "main" (main.py:483) or "db" (db/function.py:37)
    assets,              \* process_batches(assets)
    batch_size,          \* BatchProcessor.batch_size
    pc,                  \* position of process_batches
    i,                   \* loop variable of _process_asset_batches
    batch,               \* assets[i:i + batch_size]
    position_data,       \* the shared position snapshot
    ls_trend_data,       \* the long/short trend snapshot
    total_stats,         \* run-level BatchStats
    batch_stats,         \* BatchStats of the current batch
    tasks,               \* the fetch_asset_data tasks of the current batch
    p,                   \* index of the for loop over asset_data_results
    processed_data,      \* processed records of the current batch
    processed_liquidation_distribution,
    faults,              \* number of faults the environment has injected
    log                  \* observations: what was fetched, validated, written

cbvars == <<failures, last_failure_time, is_open>>
runvars == <<web, liq, write_to_influx, assets, batch_size, pc, i, batch, position_data,
             ls_trend_data, total_stats, batch_stats, tasks, p,
             processed_data, processed_liquidation_distribution, faults, log>>
vars == <<failures, last_failure_time, is_open, now, call,
          web, liq, write_to_influx, assets, batch_size, pc, i, batch, position_data,
          ls_trend_data, total_stats, batch_stats, tasks, p,
          processed_data, processed_liquidation_distribution, faults, log>>

----------------------------------------------------------------------------
(* Bounds *)
Assets == {"A", "B", "C"}
MaxTime == 1000
MaxFailures == 4
TickStep == 100
MaxAssets == 3
MaxBatchSize == 2
MaxFaults == 1
MaxMerges == 3
MaxRetries == 3
MaxHistoryTime == 1600
MaxRecorded == 6

(* Program constants *)
failure_threshold == 3
reset_timeout == 300
interval == 500

Keys == {"fetch", "process"} \X Assets
CBKeys == {<<"fetch", "A">>, <<"process", "A">>}
None == "None"
\* the clock starts at a Unix time far beyond reset_timeout, so that the
\* default last_failure_time 0.0 is always stale
Epoch == reset_timeout + TickStep

----------------------------------------------------------------------------
(* CircuitBreaker: the three defaultdicts as one record *)
CB == [failures |-> failures, last_failure_time |-> last_failure_time,
       is_open |-> is_open]

CBInit ==
    [failures |-> [k \in Keys |-> 0],
     last_failure_time |-> [k \in Keys |-> 0],
     is_open |-> [k \in Keys |-> FALSE]]

\* a count that never starts a fresh streak
record_failure_count_no_expiry(cb, k, t) ==
    cb.failures[k] + 1

\* a count that reaches the threshold with the first failure
record_failure_count_at_threshold(cb, k, t) ==
    failure_threshold

\* a count in which every failure weighs double
record_failure_count_by_two(cb, k, t) ==
    IF t - cb.last_failure_time[k] > reset_timeout
    THEN 2
    ELSE cb.failures[k] + 2

record_failure_count(cb, k, t) ==
    IF t - cb.last_failure_time[k] > reset_timeout
    THEN 1
    ELSE cb.failures[k] + 1

\* a breaker keyed by the asset alone: the failure is booked on every
\* operation key of the asset
record_failure_per_asset(cb, k, t) ==
    LET f == record_failure_count(cb, k, t)
        same(q) == q[2] = k[2]
    IN [failures |-> [q \in Keys |-> IF same(q) THEN f ELSE cb.failures[q]],
        last_failure_time |->
            [q \in Keys |-> IF same(q) THEN t ELSE cb.last_failure_time[q]],
        is_open |->
            [q \in Keys |-> IF same(q) /\ f >= failure_threshold THEN TRUE
                            ELSE cb.is_open[q]]]

record_failure(cb, k, t) ==
    LET f == record_failure_count(cb, k, t)
    IN [failures |-> [cb.failures EXCEPT ![k] = f],
        last_failure_time |-> [cb.last_failure_time EXCEPT ![k] = t],
        is_open |-> [cb.is_open EXCEPT
                        ![k] = IF f >= failure_threshold THEN TRUE ELSE @]]

\* a record_success that resets the count but leaves the key open
record_success_keeps_open(cb, k) ==
    [failures |-> [cb.failures EXCEPT ![k] = 0],
     last_failure_time |-> cb.last_failure_time,
     is_open |-> cb.is_open]

record_success(cb, k) ==
    [failures |-> [cb.failures EXCEPT ![k] = 0],
     last_failure_time |-> cb.last_failure_time,
     is_open |-> [cb.is_open EXCEPT ![k] = FALSE]]

\* can_proceed that lets an open key through as soon as the elapsed time
\* equals the timeout
can_proceed_expired_geq(cb, k, t) ==
    t - cb.last_failure_time[k] >= reset_timeout

can_proceed_expired(cb, k, t) ==
    t - cb.last_failure_time[k] > reset_timeout

\* the value returned by can_proceed
can_proceed(cb, k, t) ==
    IF ~cb.is_open[k] THEN TRUE
    ELSE can_proceed_expired(cb, k, t)

\* a half-open transition that closes the key but keeps its count
can_proceed_state_keeps_count(cb, k, t) ==
    IF cb.is_open[k] /\ can_proceed_expired(cb, k, t)
    THEN [cb EXCEPT !.is_open = [@ EXCEPT ![k] = FALSE]]
    ELSE cb

\* a can_proceed whose refusal counts as a failure of the key: it restarts
\* the timeout
can_proceed_state_refusal_refreshes(cb, k, t) ==
    IF cb.is_open[k] /\ can_proceed_expired(cb, k, t)
    THEN [failures |-> [cb.failures EXCEPT ![k] = 0],
          last_failure_time |-> cb.last_failure_time,
          is_open |-> [cb.is_open EXCEPT ![k] = FALSE]]
    ELSE IF cb.is_open[k]
    THEN [cb EXCEPT !.last_failure_time = [@ EXCEPT ![k] = t]]
    ELSE cb

\* the breaker after can_proceed
can_proceed_state(cb, k, t) ==
    IF cb.is_open[k] /\ can_proceed_expired(cb, k, t)
    THEN [failures |-> [cb.failures EXCEPT ![k] = 0],
          last_failure_time |-> cb.last_failure_time,
          is_open |-> [cb.is_open EXCEPT ![k] = FALSE]]
    ELSE cb

SetCB(cb) ==
    /\ failures' = cb.failures
    /\ last_failure_time' = cb.last_failure_time
    /\ is_open' = cb.is_open

NoCall == [op |-> "none", key |-> <<"fetch", "A">>, ret |-> TRUE,
           was_open |-> FALSE, pre_failures |-> 0, elapsed |-> 0]

Observe(op, k, ret) ==
    [op |-> op, key |-> k, ret |-> ret, was_open |-> is_open[k],
     pre_failures |-> failures[k], elapsed |-> now - last_failure_time[k]]

----------------------------------------------------------------------------
(* BatchStats and FailureRecord (the timestamp field is not modelled) *)
FailureRecord(asset, step, error) ==
    [asset |-> asset, step |-> step, error |-> error]

BatchStats(n) ==
    [total_assets |-> n,
     successful_fetches |-> 0, failed_fetches |-> 0,
     successful_processes |-> 0, failed_processes |-> 0,
     successful_validations |-> 0, failed_validations |-> 0,
     successful_writes |-> 0, failed_writes |-> 0,
     failures |-> << >>]

\* a record_failure that writes the list back from a copy taken before the
\* other tasks appended to it
stats_record_failure_from_stale_copy(stats, asset, step, error) ==
    [stats EXCEPT !.failures = <<FailureRecord(asset, step, error)>>]

stats_record_failure(stats, asset, step, error) ==
    [stats EXCEPT !.failures = Append(@, FailureRecord(asset, step, error))]

\* a merge that overwrites the run-level counters with the batch's
update_from_batch_overwrite(self, other) ==
    [other EXCEPT !.total_assets = self.total_assets,
                  !.failures = self.failures \o other.failures]

\* a merge that fills in only the counters that are still zero
update_from_batch_fill_zero(self, other) ==
    LET fill(x, y) == IF x = 0 THEN y ELSE x
    IN [self EXCEPT
        !.successful_fetches = fill(@, other.successful_fetches),
        !.failed_fetches = fill(@, other.failed_fetches),
        !.successful_processes = fill(@, other.successful_processes),
        !.failed_processes = fill(@, other.failed_processes),
        !.successful_validations = fill(@, other.successful_validations),
        !.failed_validations = fill(@, other.failed_validations),
        !.successful_writes = fill(@, other.successful_writes),
        !.failed_writes = fill(@, other.failed_writes),
        !.failures = @ \o other.failures]

\* a merge that puts the batch's failure records in front of the receiver's
update_from_batch_prepend(self, other) ==
    [self EXCEPT
        !.successful_fetches = @ + other.successful_fetches,
        !.failed_fetches = @ + other.failed_fetches,
        !.successful_processes = @ + other.successful_processes,
        !.failed_processes = @ + other.failed_processes,
        !.successful_validations = @ + other.successful_validations,
        !.failed_validations = @ + other.failed_validations,
        !.successful_writes = @ + other.successful_writes,
        !.failed_writes = @ + other.failed_writes,
        !.failures = other.failures \o @]

update_from_batch(self, other) ==
    [self EXCEPT
        !.successful_fetches = @ + other.successful_fetches,
        !.failed_fetches = @ + other.failed_fetches,
        !.successful_processes = @ + other.successful_processes,
        !.failed_processes = @ + other.failed_processes,
        !.successful_validations = @ + other.successful_validations,
        !.failed_validations = @ + other.failed_validations,
        !.successful_writes = @ + other.successful_writes,
        !.failed_writes = @ + other.failed_writes,
        !.failures = @ \o other.failures]

\* number of FailureRecords of a stats object whose step is in S
RECURSIVE CountSteps(_, _)
CountSteps(fs, S) ==
    IF fs = << >> THEN 0
    ELSE (IF Head(fs).step \in S THEN 1 ELSE 0) + CountSteps(Tail(fs), S)

----------------------------------------------------------------------------
(* Values exchanged with the collaborators *)

\* what a collaborator fetch yields: no data, well-formed data, or data
\* whose processing fails
Payloads == {None, "ok", "bad"}

\* the position snapshot: a dict with (or without) the keys 'data' and
\* 'lastUpdated'; data maps an asset to its entry, which process_position
\* updates in place
NoPosition ==
    [is_none |-> TRUE, has_data |-> FALSE, has_lastUpdated |-> FALSE,
     data |-> [a \in {} |-> 0]]

Entry(a) ==
    [Asset |-> a, Funding_History |-> None, Liquidation_Metrics |-> None,
     Timestamp |-> None]

Snapshot(has_data, has_lastUpdated, S) ==
    [is_none |-> FALSE, has_data |-> has_data,
     has_lastUpdated |-> has_lastUpdated,
     data |-> [a \in S |-> Entry(a)]]

Range(s) == {s[j] : j \in DOMAIN s}

Min(a, b) == IF a < b THEN a ELSE b

\* a slice that also takes the element at index hi
Slice_inclusive(s, lo, hi) == SubSeq(s, lo + 1, Min(hi + 1, Len(s)))

\* the Python slice s[lo:hi] of a list (0 <= lo <= hi)
Slice(s, lo, hi) == SubSeq(s, lo + 1, Min(hi, Len(s)))

\* asset lists up to renaming of the symbols: the first occurrences of the
\* symbols appear in the order A, B, C
Rank(a) == CASE a = "A" -> 1 [] a = "B" -> 2 [] OTHER -> 3

Canonical(s) ==
    \A j \in DOMAIN s :
        Rank(s[j]) <= 1 + Cardinality({s[m] : m \in 1..(j - 1)})

AssetLists ==
    {s \in UNION {[1..n -> Assets] : n \in 0..MaxAssets} : Canonical(s)}

NoTask == [st |-> "done", ok |-> FALSE, asset |-> "A",
           liquidation_data |-> None, funding_history |-> None]

NoLog ==
    [fetched |-> << >>, proceeded |-> << >>, valid |-> << >>,
     refs |-> << >>, handed |-> << >>, stored |-> 0, batches |-> << >>,
     write |-> [n |-> 0, writer_ok |-> TRUE, failing |-> {}, raised |-> FALSE],
     process |-> [asset |-> "A", funding |-> FALSE, position |-> FALSE,
                  liquidation |-> FALSE, returned |-> FALSE,
                  success_recorded |-> FALSE, ran |-> FALSE],
     common |-> [position |-> "unset", ls_trend |-> "unset"],
     global |-> [handed |-> 0, valid |-> FALSE, stored |-> 0],
     fetch |-> [invoked |-> FALSE, raise |-> FALSE, liquidation_data |-> None,
                funding_history |-> None, waited |-> 0],
     summaries |-> 0, propagated |-> FALSE, merged |-> << >>,
     calls |-> << >>, cb0 |-> CBInit,
     history |-> [recorded |-> 0, spaced |-> TRUE, passed |-> FALSE,
                 streak |-> 0, peak |-> 0]]

\* no fetch_website call has been made
WebIdle ==
    [pc |-> "idle", method |-> "GET", max_retries |-> 0, retries |-> 0,
     responses |-> << >>, result |-> None, slept |-> 0, browser |-> "none"]

\* liquidation_data: price -> wallet -> signed amount.  The amounts are in
\* thousandths; 0 stands for a wallet without a liquidation at that price
\* (an absent entry and a zero amount leave every returned number the same).
LiqPrices == {-1, 1000, 1499, 1500}
LiqWallets == {"w1", "w2"}
LiqAmounts == {-3000, 5000}
LiqSlots == LiqPrices \X LiqWallets
LiqInputs == [LiqSlots -> LiqAmounts \cup {0}]

\* no process_liquidation call has been made
LiqIdle ==
    [called |-> FALSE, liquidation_data |-> [sl \in LiqSlots |-> 0],
     metrics |-> None, liquidation_distribution |-> None]

RunIdle ==
    /\ web = WebIdle
    /\ liq = LiqIdle
    /\ write_to_influx = "db"
    /\ assets = << >>
    /\ batch_size = 1
    /\ pc = "idle"
    /\ i = 0
    /\ batch = << >>
    /\ position_data = NoPosition
    /\ ls_trend_data = None
    /\ total_stats = BatchStats(0)
    /\ batch_stats = BatchStats(0)
    /\ tasks = << >>
    /\ p = 1
    /\ processed_data = << >>
    /\ processed_liquidation_distribution = << >>
    /\ faults = 0
    /\ log = NoLog

----------------------------------------------------------------------------
(* SpecCB: any sequence of calls on any key, time passing between calls *)
CallRecordFailure(k) ==
    /\ failures[k] < MaxFailures
    /\ SetCB(record_failure(CB, k, now))
    /\ call' = Observe("record_failure", k, TRUE)
    /\ UNCHANGED <<now, runvars>>

CallRecordSuccess(k) ==
    /\ SetCB(record_success(CB, k))
    /\ call' = Observe("record_success", k, TRUE)
    /\ UNCHANGED <<now, runvars>>

CallCanProceed(k) ==
    /\ SetCB(can_proceed_state(CB, k, now))
    /\ call' = Observe("can_proceed", k, can_proceed(CB, k, now))
    /\ UNCHANGED <<now, runvars>>

Tick(d) ==
    /\ now + d <= MaxTime
    /\ now' = now + d
    /\ call' = NoCall
    /\ UNCHANGED <<cbvars, runvars>>

InitCB ==
    /\ failures = CBInit.failures
    /\ last_failure_time = CBInit.last_failure_time
    /\ is_open = CBInit.is_open
    /\ now = Epoch
    /\ call = NoCall
    /\ RunIdle

NextCB ==
    \/ \E k \in CBKeys : CallRecordFailure(k)
    \/ \E k \in CBKeys : CallRecordSuccess(k)
    \/ \E k \in CBKeys : CallCanProceed(k)
    \/ Tick(TickStep)

SpecCB == InitCB /\ [][NextCB]_vars

----------------------------------------------------------------------------
(* SpecHistory: the life of one key under any sequence of record_failure,  *)
(* record_success and can_proceed calls, over a time span that holds        *)
(* several timeouts.  log.history observes the sequence: the number of      *)
(* record_failure calls, whether each came more than reset_timeout after    *)
(* the one before, whether can_proceed has let the open key through, and    *)
(* the current and the longest run of failures since then that came each    *)
(* within reset_timeout of the one before.                                  *)
HistoryKey == <<"fetch", "A">>

HistoryRecordFailure ==
    LET gap == now - last_failure_time[HistoryKey] > reset_timeout
        run == IF gap THEN 1 ELSE log.history.streak + 1
    IN /\ log.history.recorded < MaxRecorded
       /\ SetCB(record_failure(CB, HistoryKey, now))
       /\ call' = Observe("record_failure", HistoryKey, TRUE)
       /\ log' = [log EXCEPT !.history =
                    [@ EXCEPT !.recorded = @ + 1,
                              !.spaced = @ /\ gap,
                              !.streak = run,
                              !.peak = IF run > @ THEN run ELSE @]]
       /\ UNCHANGED <<now, web, liq, write_to_influx, assets, batch_size, pc,
                      i, batch, position_data, ls_trend_data, total_stats,
                      batch_stats, tasks, p, processed_data,
                      processed_liquidation_distribution, faults>>

HistoryRecordSuccess ==
    /\ SetCB(record_success(CB, HistoryKey))
    /\ call' = Observe("record_success", HistoryKey, TRUE)
    /\ log' = [log EXCEPT !.history = [@ EXCEPT !.streak = 0]]
    /\ UNCHANGED <<now, web, liq, write_to_influx, assets, batch_size, pc,
                   i, batch, position_data, ls_trend_data, total_stats,
                   batch_stats, tasks, p, processed_data,
                   processed_liquidation_distribution, faults>>

HistoryCanProceed ==
    LET through == is_open[HistoryKey] /\ can_proceed(CB, HistoryKey, now)
    IN /\ SetCB(can_proceed_state(CB, HistoryKey, now))
       /\ call' = Observe("can_proceed", HistoryKey,
                          can_proceed(CB, HistoryKey, now))
       /\ log' = [log EXCEPT !.history =
                    [@ EXCEPT !.passed = @ \/ through,
                              !.streak = IF through THEN 0 ELSE @,
                              !.peak = IF through THEN 0 ELSE @]]
       /\ UNCHANGED <<now, web, liq, write_to_influx, assets, batch_size, pc,
                      i, batch, position_data, ls_trend_data, total_stats,
                      batch_stats, tasks, p, processed_data,
                      processed_liquidation_distribution, faults>>

HistoryTick ==
    /\ now + TickStep <= MaxHistoryTime
    /\ now' = now + TickStep
    /\ call' = NoCall
    /\ UNCHANGED <<cbvars, runvars>>

NextHistory ==
    \/ HistoryRecordFailure
    \/ HistoryRecordSuccess
    \/ HistoryCanProceed
    \/ HistoryTick

SpecHistory == InitCB /\ [][NextHistory]_vars

----------------------------------------------------------------------------
(* SpecLiq: process_liquidation *)

Abs(x) == IF x < 0 THEN -x ELSE x

\* Python's round(x, ndigits) on an amount in thousandths: the nearest
\* multiple of 10^(3 - ndigits), a tie going to the even multiple
round(x, ndigits) ==
    IF ndigits >= 3 THEN x
    ELSE LET unit == 10 ^ (3 - ndigits)
             lo == (x \div unit) * unit
             rest == x - lo
         IN IF 2 * rest < unit THEN lo
            ELSE IF 2 * rest > unit THEN lo + unit
            ELSE IF (lo \div unit) % 2 = 0 THEN lo ELSE lo + unit

\* sum of g over the slots S
RECURSIVE SumOver(_, _)
SumOver(g, S) ==
    IF S = {} THEN 0
    ELSE LET x == CHOOSE x \in S : TRUE
         IN g[x] + SumOver(g, S \ {x})

\* a bucket key that rounds the price to the nearest multiple of interval
interval_key_nearest(price) == ((price + interval \div 2) \div interval) * interval

\* int(price_value // interval * interval)
interval_key(price) == (price \div interval) * interval

\* the entry (if any) appended for one bucket
distribution_entry(key, long_liquidations, short_liquidations, total_longs, total_shorts) ==
    IF long_liquidations > 0
    THEN <<[price |-> key,
            long_liquidations |-> round(long_liquidations, 2),
            short_liquidations |-> 0,
            cumulative_longs |-> round(total_longs, 2),
            cumulative_shorts |-> 0]>>
    ELSE IF short_liquidations > 0
    THEN <<[price |-> key,
            long_liquidations |-> 0,
            short_liquidations |-> round(short_liquidations, 2),
            cumulative_longs |-> 0,
            cumulative_shorts |-> round(total_shorts, 2)]>>
    ELSE << >>

process_liquidation(liquidation_data) ==
    LET events == {sl \in LiqSlots : liquidation_data[sl] # 0}
        longs == {sl \in events : liquidation_data[sl] > 0}
        shorts == events \ longs
        magnitude == [sl \in events |-> Abs(liquidation_data[sl])]
        total_longs == SumOver(magnitude, longs)
        total_shorts == SumOver(magnitude, shorts)
        largest_single ==
            IF events = {} THEN 0
            ELSE CHOOSE m \in {magnitude[sl] : sl \in events} :
                    \A sl \in events : magnitude[sl] <= m
        keys == {interval_key(sl[1]) : sl \in events}
        grouped_data ==
            [key \in keys |->
                [long |-> SumOver(magnitude,
                            {sl \in longs : interval_key(sl[1]) = key}),
                 short |-> SumOver(magnitude,
                            {sl \in shorts : interval_key(sl[1]) = key})]]
        \* for interval_key in sorted(grouped_data.keys())
        RECURSIVE InPriceOrder(_)
        InPriceOrder(K) ==
            IF K = {} THEN << >>
            ELSE LET key == CHOOSE key \in K : \A q \in K : key <= q
                 IN distribution_entry(key, grouped_data[key].long,
                                       grouped_data[key].short,
                                       total_longs, total_shorts)
                    \o InPriceOrder(K \ {key})
        total_volume == total_longs + total_shorts
    IN [metrics |->
            [total_long_liquidation |-> round(total_longs, 8),
             total_short_liquidation |-> round(total_shorts, 8),
             largest_liquidation |-> round(largest_single, 8),
             total_liquidation |-> round(total_volume, 8)],
        liquidation_distribution |-> InPriceOrder(keys)]

CallProcessLiquidation ==
    /\ ~liq.called
    /\ \E liquidation_data \in LiqInputs :
        LET r == process_liquidation(liquidation_data)
        IN liq' = [called |-> TRUE, liquidation_data |-> liquidation_data,
                   metrics |-> r.metrics,
                   liquidation_distribution |-> r.liquidation_distribution]
    /\ UNCHANGED <<cbvars, now, call, web, write_to_influx, assets,
                   batch_size, pc, i, batch, position_data, ls_trend_data,
                   total_stats, batch_stats, tasks, p, processed_data,
                   processed_liquidation_distribution, faults, log>>

NextLiq == CallProcessLiquidation

SpecLiq == InitCB /\ [][NextLiq]_vars

----------------------------------------------------------------------------
(* SpecWeb: fetch_website.  web.responses are the answers to the request   *)
(* attempts made so far, web.slept the seconds spent in asyncio.sleep,     *)
(* web.browser the browser process: "none", "open" or "closed".            *)

Statuses == {200, 401, 403, 404, 429, 503}

\* what one request attempt meets: no response at all (a timeout or a
\* network error), or a response with a status and a body that is JSON text
\* or something else
Responses ==
    {[status |-> 0, body |-> "none"]}
    \cup {[status |-> st, body |-> b] : st \in Statuses, b \in {"json", "text"}}

\* one pass through the body of the retry loop: "return" with the parsed
\* data, "absent" for a bare return, "break" on json.JSONDecodeError and
\* "retry" when the handler of Exception is entered
attempt_page_goto(r) ==
    IF r.status = 0 THEN "retry"
    ELSE IF r.status \in {429, 503} THEN "retry"
    ELSE IF r.status = 401 THEN "absent"
    ELSE IF ~(r.status >= 200 /\ r.status <= 299) THEN "absent"
    ELSE IF r.body = "json" THEN "return"
    ELSE "break"

\* the POST branch: fetch resolves for every status, and response.json()
\* rejects on a body that is not JSON, which page.evaluate raises
attempt_page_evaluate(r) ==
    IF r.status = 0 THEN "retry"
    ELSE IF r.body = "json" THEN "return"
    ELSE "retry"

attempt(method, r) ==
    IF method = "POST" THEN attempt_page_evaluate(r) ELSE attempt_page_goto(r)

\* an exit that leaves the browser as it is
exit_without_close(w, how, result) ==
    [w EXCEPT !.pc = how, !.result = result]

\* the function is left from inside the try block: finally: browser.close()
exit_through_finally(w, how, result) ==
    [w EXCEPT !.pc = how, !.result = result, !.browser = "closed"]

\* ensure_data_directory() and launch(), which precede the try block
CallFetchWebsite(method, max_retries) ==
    /\ web.pc = "idle"
    /\ \E launched \in BOOLEAN :
        web' = IF launched
               THEN [WebIdle EXCEPT !.pc = "setup", !.method = method,
                                    !.max_retries = max_retries,
                                    !.browser = "open"]
               ELSE [WebIdle EXCEPT !.pc = "raised", !.method = method,
                                    !.max_retries = max_retries]
    /\ UNCHANGED <<cbvars, now, call, liq, write_to_influx, assets, batch_size, pc,
                   i, batch, position_data, ls_trend_data, total_stats,
                   batch_stats, tasks, p, processed_data,
                   processed_liquidation_distribution, faults, log>>

\* newPage, setViewport and setExtraHTTPHeaders, up to the head of the while
\* loop; an exception of theirs leaves the function
PageSetup ==
    /\ web.pc = "setup"
    /\ \E raises \in BOOLEAN :
        web' = IF raises THEN exit_through_finally(web, "raised", None)
               ELSE [web EXCEPT !.pc = "loop"]
    /\ UNCHANGED <<cbvars, now, call, liq, write_to_influx, assets, batch_size, pc,
                   i, batch, position_data, ls_trend_data, total_stats,
                   batch_stats, tasks, p, processed_data,
                   processed_liquidation_distribution, faults, log>>

\* while retries < max_retries: one request attempt and its handlers
RequestAttempt(r) ==
    /\ web.pc = "loop"
    /\ web.retries < web.max_retries
    /\ LET a == attempt(web.method, r)
           seen == [web EXCEPT !.responses = Append(@, r)]
       IN web' =
            CASE a = "return" ->
                    exit_through_finally(seen, "returned", "data")
              [] a \in {"absent", "break"} ->
                    exit_through_finally(seen, "returned", None)
              [] OTHER ->
                    IF web.retries + 1 < web.max_retries
                    THEN [seen EXCEPT !.pc = "sleeping",
                                      !.retries = @ + 1,
                                      !.slept = @ + 2 ^ (web.retries + 1)]
                    ELSE exit_through_finally(
                             [seen EXCEPT !.retries = @ + 1], "returned", None)
    /\ UNCHANGED <<cbvars, now, call, liq, write_to_influx, assets, batch_size, pc,
                   i, batch, position_data, ls_trend_data, total_stats,
                   batch_stats, tasks, p, processed_data,
                   processed_liquidation_distribution, faults, log>>

\* asyncio.sleep(wait_time) returns
SleepOver ==
    /\ web.pc = "sleeping"
    /\ web' = [web EXCEPT !.pc = "loop"]
    /\ UNCHANGED <<cbvars, now, call, liq, write_to_influx, assets, batch_size, pc,
                   i, batch, position_data, ls_trend_data, total_stats,
                   batch_stats, tasks, p, processed_data,
                   processed_liquidation_distribution, faults, log>>

\* the loop condition is false on entry: the function falls off its end
LoopSkipped ==
    /\ web.pc = "loop"
    /\ ~(web.retries < web.max_retries)
    /\ web' = exit_through_finally(web, "returned", None)
    /\ UNCHANGED <<cbvars, now, call, liq, write_to_influx, assets, batch_size, pc,
                   i, batch, position_data, ls_trend_data, total_stats,
                   batch_stats, tasks, p, processed_data,
                   processed_liquidation_distribution, faults, log>>

NextWeb ==
    \/ \E method \in {"GET", "POST"}, max_retries \in 0..MaxRetries :
            CallFetchWebsite(method, max_retries)
    \/ PageSetup
    \/ \E r \in Responses : RequestAttempt(r)
    \/ SleepOver
    \/ LoopSkipped

SpecWeb == InitCB /\ [][NextWeb]_vars

----------------------------------------------------------------------------
(* SpecMerge: batch statistics merged one after the other into a fresh     *)
(* run-level BatchStats, as _process_asset_batches does                    *)

\* the statistics a batch of one asset can end with: the fetch failed, the
\* processing failed, the record was rejected, the write failed, or the
\* record was stored
BatchResults(a) ==
    LET fetched == [BatchStats(0) EXCEPT !.successful_fetches = 1]
        processed == [fetched EXCEPT !.successful_processes = 1]
        validated == [processed EXCEPT !.successful_validations = 1]
    IN {stats_record_failure([BatchStats(0) EXCEPT !.failed_fetches = 1],
                             a, "fetch", "exc"),
        stats_record_failure(
            stats_record_failure([fetched EXCEPT !.failed_processes = 1],
                                 a, "process_position", "exc"),
            a, "process", "exc"),
        [processed EXCEPT !.failed_validations = 1],
        stats_record_failure([validated EXCEPT !.failed_writes = 1],
                             a, "write", "exc"),
        [validated EXCEPT !.successful_writes = 1]}

StatsPool == BatchResults("A") \cup BatchResults("B")

\* total_stats.update_from_batch(batch_stats) for the next batch
MergeOne ==
    /\ Len(log.merged) < MaxMerges
    /\ \E other \in StatsPool :
        /\ total_stats' = update_from_batch(total_stats, other)
        /\ batch_stats' = other
        /\ log' = [log EXCEPT !.merged = Append(@, other)]
    /\ UNCHANGED <<cbvars, now, call, web, liq, write_to_influx, assets, batch_size, pc,
                   i, batch, position_data, ls_trend_data, tasks, p,
                   processed_data, processed_liquidation_distribution,
                   faults>>

NextMerge == MergeOne

SpecMerge == InitCB /\ [][NextMerge]_vars

----------------------------------------------------------------------------
(* DataProcessor *)

FetchOutcomes ==
    {[raise |-> TRUE, liquidation_data |-> None, funding_history |-> None]}
    \cup {[raise |-> FALSE, liquidation_data |-> l, funding_history |-> f] :
            l \in Payloads, f \in Payloads}

\* an answer of the environment counts as one fault unless it is the
\* nominal one (both collaborators return well-formed data)
FetchCost(o) ==
    IF ~o.raise /\ o.liquidation_data = "ok" /\ o.funding_history = "ok"
    THEN 0 ELSE 1

\* a suppressed fetch that leaves no FailureRecord
fetch_asset_data_begin_unrecorded(asset, stats, cb, t) ==
    LET key == <<"fetch", asset>>
    IN [proceed |-> can_proceed(cb, key, t),
        cb |-> can_proceed_state(cb, key, t), stats |-> stats]

\* fetch_asset_data up to its await: the breaker check
fetch_asset_data_begin(asset, stats, cb, t) ==
    LET key == <<"fetch", asset>>
    IN IF ~can_proceed(cb, key, t)
       THEN [proceed |-> FALSE, cb |-> can_proceed_state(cb, key, t),
             stats |-> stats_record_failure(stats, asset, "fetch",
                                            "Circuit breaker open")]
       ELSE [proceed |-> TRUE, cb |-> can_proceed_state(cb, key, t),
             stats |-> stats]

\* a fetch that fails as soon as one of the two sources is empty
fetch_asset_data_end_strict(asset, o, stats, cb, t) ==
    LET key == <<"fetch", asset>>
    IN IF o.raise
       THEN [ok |-> FALSE, cb |-> record_failure(cb, key, t),
             stats |-> stats_record_failure(stats, asset, "fetch", "exc"),
             result |-> NoTask]
       ELSE IF o.liquidation_data = None \/ o.funding_history = None
       THEN [ok |-> FALSE, cb |-> record_failure(cb, key, t),
             stats |-> stats_record_failure(stats, asset, "fetch",
                          "Both liquidation and funding data are None"),
             result |-> NoTask]
       ELSE [ok |-> TRUE, cb |-> record_success(cb, key), stats |-> stats,
             result |-> [st |-> "done", ok |-> TRUE, asset |-> asset,
                         liquidation_data |-> o.liquidation_data,
                         funding_history |-> o.funding_history]]

\* fetch_asset_data from the return of its two collaborator fetches
fetch_asset_data_end(asset, o, stats, cb, t) ==
    LET key == <<"fetch", asset>>
    IN IF o.raise
       THEN [ok |-> FALSE, cb |-> record_failure(cb, key, t),
             stats |-> stats_record_failure(stats, asset, "fetch", "exc"),
             result |-> NoTask]
       ELSE IF o.liquidation_data = None /\ o.funding_history = None
       THEN [ok |-> FALSE, cb |-> record_failure(cb, key, t),
             stats |-> stats_record_failure(stats, asset, "fetch",
                          "Both liquidation and funding data are None"),
             result |-> NoTask]
       ELSE [ok |-> TRUE, cb |-> record_success(cb, key), stats |-> stats,
             result |-> [st |-> "done", ok |-> TRUE, asset |-> asset,
                         liquidation_data |-> o.liquidation_data,
                         funding_history |-> o.funding_history]]

\* _process_components with _process_funding, _process_position,
\* _process_liquidation, _process_final_position and process_position
process_components(asset_data, pd, stats) ==
    LET asset == asset_data.asset
        funding_raises == asset_data.funding_history = "bad"
        funding == IF asset_data.funding_history = "ok" THEN "ok" ELSE None
        s1 == IF funding_raises
              THEN stats_record_failure(stats, asset, "process_funding", "exc")
              ELSE stats
        position_raises == ~pd.has_data
        found == pd.has_data /\ asset \in DOMAIN pd.data
        s2 == IF position_raises
              THEN stats_record_failure(s1, asset, "process_position", "exc")
              ELSE s1
        \* process_liquidation catches its own errors and returns (None, None)
        metrics == IF asset_data.liquidation_data = "ok" THEN "ok" ELSE None
        any == funding # None \/ found \/ metrics # None
        \* process_position(None, ...) raises inside its own except clause
        final_raises == any /\ ~found
        s3 == IF final_raises
              THEN stats_record_failure(s2, asset, "process_final", "exc")
              ELSE s2
        ok == any /\ ~final_raises
    IN [ok |-> ok, stats |-> s3,
        funding |-> funding # None, position |-> found,
        liquidation |-> metrics # None,
        position_data |->
            IF ok
            THEN [pd EXCEPT !.data[asset] =
                    [Asset |-> asset, Funding_History |-> funding,
                     Liquidation_Metrics |-> metrics,
                     Timestamp |-> "lastUpdated"]]
            ELSE pd]

\* a process_asset_data that returns absent without a "process" record
process_asset_data_unrecorded(asset_data, pd, stats, cb, t) ==
    LET asset == asset_data.asset
        key == <<"process", asset>>
        cb1 == can_proceed_state(cb, key, t)
        r == process_components(asset_data, pd, stats)
    IN IF ~can_proceed(cb, key, t)
       THEN [ok |-> FALSE, ran |-> FALSE, cb |-> cb1, position_data |-> pd,
             stats |-> stats_record_failure(stats, asset, "process",
                                            "Circuit breaker open"),
             funding |-> FALSE, position |-> FALSE, liquidation |-> FALSE,
             success_recorded |-> FALSE]
       ELSE IF r.ok
       THEN [ok |-> TRUE, ran |-> TRUE, cb |-> record_success(cb1, key),
             position_data |-> r.position_data, stats |-> r.stats,
             funding |-> r.funding, position |-> r.position,
             liquidation |-> r.liquidation, success_recorded |-> TRUE]
       ELSE [ok |-> FALSE, ran |-> TRUE, cb |-> record_failure(cb1, key, t),
             position_data |-> r.position_data, stats |-> r.stats,
             funding |-> r.funding, position |-> r.position,
             liquidation |-> r.liquidation, success_recorded |-> FALSE]

process_asset_data(asset_data, pd, stats, cb, t) ==
    LET asset == asset_data.asset
        key == <<"process", asset>>
        cb1 == can_proceed_state(cb, key, t)
        r == process_components(asset_data, pd, stats)
    IN IF ~can_proceed(cb, key, t)
       THEN [ok |-> FALSE, ran |-> FALSE, cb |-> cb1, position_data |-> pd,
             stats |-> stats_record_failure(stats, asset, "process",
                                            "Circuit breaker open"),
             funding |-> FALSE, position |-> FALSE, liquidation |-> FALSE,
             success_recorded |-> FALSE]
       ELSE IF r.ok
       THEN [ok |-> TRUE, ran |-> TRUE, cb |-> record_success(cb1, key),
             position_data |-> r.position_data, stats |-> r.stats,
             funding |-> r.funding, position |-> r.position,
             liquidation |-> r.liquidation, success_recorded |-> TRUE]
       ELSE [ok |-> FALSE, ran |-> TRUE, cb |-> record_failure(cb1, key, t),
             position_data |-> r.position_data,
             stats |-> stats_record_failure(r.stats, asset, "process",
                                            "No valid data to process"),
             funding |-> r.funding, position |-> r.position,
             liquidation |-> r.liquidation, success_recorded |-> FALSE]

----------------------------------------------------------------------------
(* SpecFetch and SpecProcess: any sequence of fetch_asset_data calls, and
   any sequence of process_asset_data calls, of one DataProcessor for one
   asset, each call with a fresh BatchStats, time passing between the calls
   and while a fetch is awaited *)
DPAssets == {"A"}

\* the snapshots process_asset_data is called with: the asset is listed, the
\* asset is not listed, the snapshot has no 'data' key
DPSnapshots(asset) ==
    {Snapshot(TRUE, TRUE, {asset}), Snapshot(TRUE, TRUE, {}),
     Snapshot(FALSE, TRUE, {})}

\* the values fetch_asset_data returns other than None
FetchResults(asset) ==
    {[st |-> "done", ok |-> TRUE, asset |-> asset,
      liquidation_data |-> l, funding_history |-> f] :
        l \in Payloads, f \in Payloads} \
    {[st |-> "done", ok |-> TRUE, asset |-> asset,
      liquidation_data |-> None, funding_history |-> None]}

CallFetchAssetData(asset) ==
    LET key == <<"fetch", asset>>
        b == fetch_asset_data_begin(asset, BatchStats(0), CB, now)
    IN /\ IF ~b.proceed
          THEN /\ SetCB(b.cb)
               /\ batch_stats' = b.stats
               /\ tasks' = << >>
               /\ now' = now
               /\ log' = [log EXCEPT !.fetch = NoLog.fetch]
               /\ call' = Observe("fetch_asset_data", key, FALSE)
          ELSE \E o \in FetchOutcomes, d \in {0, TickStep} :
               LET e == fetch_asset_data_end(asset, o, b.stats, b.cb, now + d)
               IN /\ now + d <= MaxTime
                  /\ SetCB(e.cb)
                  /\ batch_stats' = e.stats
                  /\ tasks' = IF e.ok THEN <<e.result>> ELSE << >>
                  /\ now' = now + d
                  /\ log' = [log EXCEPT !.fetch =
                               [invoked |-> TRUE, raise |-> o.raise,
                                liquidation_data |-> o.liquidation_data,
                                funding_history |-> o.funding_history,
                                waited |-> d]]
                  /\ call' = Observe("fetch_asset_data", key, e.ok)
       /\ UNCHANGED <<web, liq, write_to_influx, assets, batch_size, pc, i, batch,
                      position_data, ls_trend_data, total_stats, p,
                      processed_data, processed_liquidation_distribution,
                      faults>>

CallProcessAssetData(asset) ==
    /\ \E asset_data \in FetchResults(asset), pd \in DPSnapshots(asset) :
        LET r == process_asset_data(asset_data, pd, BatchStats(0), CB, now)
        IN /\ SetCB(r.cb)
           /\ batch_stats' = r.stats
           /\ tasks' = <<asset_data>>
           /\ position_data' = r.position_data
           /\ log' = [log EXCEPT !.process =
                        [asset |-> asset, funding |-> r.funding,
                         position |-> r.position,
                         liquidation |-> r.liquidation, returned |-> r.ok,
                         success_recorded |-> r.success_recorded,
                         ran |-> r.ran]]
           /\ call' = Observe("process_asset_data", <<"process", asset>>, r.ok)
    /\ UNCHANGED <<now, web, liq, write_to_influx, assets, batch_size, pc, i, batch,
                   ls_trend_data, total_stats, p, processed_data,
                   processed_liquidation_distribution, faults>>

NextFetch ==
    \/ \E a \in DPAssets : CallFetchAssetData(a)
    \/ Tick(TickStep)

SpecFetch == InitCB /\ [][NextFetch]_vars

NextProcess ==
    \/ \E a \in DPAssets : CallProcessAssetData(a)
    \/ Tick(TickStep)

SpecProcess == InitCB /\ [][NextProcess]_vars

----------------------------------------------------------------------------
(* SpecFanOut: the concurrent fetch tasks of one batch, with any           *)
(* collaborator answers, any completion order and any delays, on a breaker *)
(* as earlier batches left it.  A task runs without interruption from one  *)
(* await to the next, so each action is one such stretch.                  *)

\* the collaborators raise, both yield nothing, or both yield data
FanOutOutcomes ==
    {o \in FetchOutcomes :
        \/ o.raise
        \/ o.liquidation_data = None /\ o.funding_history = None
        \/ o.liquidation_data = "ok" /\ o.funding_history = "ok"}

FanOutBatches == {s \in AssetLists : 1 <= Len(s) /\ Len(s) <= MaxBatchSize}

\* asset_data_tasks = [fetch_asset_data(asset, batch_stats) for asset in
\* batch] with a fresh BatchStats
TaskCreate ==
    /\ tasks = << >>
    /\ \E b \in FanOutBatches :
        /\ batch' = b
        /\ tasks' = [j \in 1..Len(b) |->
                        [NoTask EXCEPT !.st = "new", !.asset = b[j]]]
    /\ batch_stats' = BatchStats(0)
    /\ log' = [log EXCEPT !.calls = << >>, !.cb0 = CB]
    /\ UNCHANGED <<cbvars, now, call, web, liq, write_to_influx, assets, batch_size, pc,
                   i, position_data, ls_trend_data, total_stats, p,
                   processed_data, processed_liquidation_distribution,
                   faults>>

\* a task runs up to its first await (or returns, when the breaker refuses)
TaskStart(j) ==
    /\ j \in DOMAIN tasks
    /\ tasks[j].st = "new"
    /\ \A m \in 1..(j - 1) : tasks[m].st # "new"
    /\ LET r == fetch_asset_data_begin(batch[j], batch_stats, CB, now)
       IN /\ SetCB(r.cb)
          /\ batch_stats' = r.stats
          /\ tasks' = [tasks EXCEPT ![j].st =
                          IF r.proceed THEN "awaiting" ELSE "done"]
          /\ log' = [log EXCEPT !.calls =
                        Append(@, [op |-> "can_proceed", asset |-> batch[j],
                                   t |-> now, ret |-> r.proceed])]
    /\ UNCHANGED <<now, call, web, liq, write_to_influx, assets, batch_size, pc, i,
                   batch, position_data, ls_trend_data, total_stats, p,
                   processed_data, processed_liquidation_distribution,
                   faults>>

\* the collaborator fetches of a task return or raise, and the task runs to
\* its end
TaskFinish(j) ==
    /\ j \in DOMAIN tasks
    /\ tasks[j].st = "awaiting"
    /\ \A m \in DOMAIN tasks : tasks[m].st # "new"
    /\ \E o \in FanOutOutcomes :
        LET r == fetch_asset_data_end(batch[j], o, batch_stats, CB, now)
        IN /\ SetCB(r.cb)
           /\ batch_stats' = r.stats
           /\ tasks' = [tasks EXCEPT ![j] = r.result]
           /\ log' = [log EXCEPT !.calls =
                        Append(@, [op |-> IF r.ok THEN "record_success"
                                          ELSE "record_failure",
                                   asset |-> batch[j], t |-> now,
                                   ret |-> TRUE])]
    /\ UNCHANGED <<now, call, web, liq, write_to_influx, assets, batch_size, pc, i,
                   batch, position_data, ls_trend_data, total_stats, p,
                   processed_data, processed_liquidation_distribution,
                   faults>>

\* time passes while fetches are awaited
TaskWait ==
    /\ \E j \in DOMAIN tasks : tasks[j].st = "awaiting"
    /\ Tick(TickStep)

NextFanOut ==
    \/ TaskCreate
    \/ \E j \in 1..MaxBatchSize : TaskStart(j)
    \/ \E j \in 1..MaxBatchSize : TaskFinish(j)
    \/ TaskWait

\* the breaker after n failures of the first asset's fetch in a row, all
\* recorded by earlier batches at the start of the clock
InitFanOut ==
    /\ \E n \in 0..failure_threshold :
        LET cb == IF n = 0 THEN CBInit
                  ELSE [failures |->
                            [k \in Keys |-> IF k = <<"fetch", "A">>
                                            THEN n ELSE 0],
                        last_failure_time |->
                            [k \in Keys |-> IF k = <<"fetch", "A">>
                                            THEN Epoch ELSE 0],
                        is_open |->
                            [k \in Keys |-> k = <<"fetch", "A">>
                                            /\ n >= failure_threshold]]
        IN /\ failures = cb.failures
           /\ last_failure_time = cb.last_failure_time
           /\ is_open = cb.is_open
    /\ now = Epoch
    /\ call = NoCall
    /\ RunIdle

SpecFanOut == InitFanOut /\ [][NextFanOut]_vars

----------------------------------------------------------------------------
(* Validate and Store collaborators *)

\* validate_position_data: the positions (in the list handed over) of the
\* records the schema accepts, in order; valid is the set of assets whose
\* (shared) entry satisfies AssetMetrics
RECURSIVE AcceptedPositions(_, _, _)
AcceptedPositions(records, valid, j) ==
    IF j > Len(records) THEN << >>
    ELSE (IF records[j] \in valid THEN <<j>> ELSE << >>)
         \o AcceptedPositions(records, valid, j + 1)

\* a validation that rejects the whole list when one record is invalid
validate_all_or_nothing(records, valid) ==
    IF \A j \in DOMAIN records : records[j] \in valid
    THEN [j \in 1..Len(records) |-> j] ELSE << >>

\* a validation that gives up at the first invalid record
RECURSIVE validate_until_invalid_from(_, _, _)
validate_until_invalid_from(records, valid, j) ==
    IF j > Len(records) \/ records[j] \notin valid THEN << >>
    ELSE <<j>> \o validate_until_invalid_from(records, valid, j + 1)

validate_until_first_invalid(records, valid) ==
    validate_until_invalid_from(records, valid, 1)

validate_position_data(records, valid) ==
    AcceptedPositions(records, valid, 1)

Pick(s, K) == [m \in 1..Len(K) |-> s[K[m]]]

\* write_to_influx: whether the call raises, and how many writes succeeded.
\* "db": db/function.py under handle_db_errors; "main": main.py:483.
write_raises(w, writer_ok, failing) ==
    w = "main" /\ ~writer_ok

write_stored(n, writer_ok, failing) ==
    IF writer_ok THEN n - Cardinality(failing) ELSE 0

\* a _write_batch_to_influx whose except branch records the failures
\* without counting them
write_batch_failure_uncounted(validated, stats, w, writer_ok, failing) ==
    LET n == Len(validated)
        RECURSIVE RecordAll(_, _)
        RecordAll(st, j) ==
            IF j > n THEN st
            ELSE RecordAll(stats_record_failure(st, validated[j], "write",
                                                "exc"), j + 1)
    IN IF write_raises(w, writer_ok, failing)
       THEN RecordAll(stats, 1)
       ELSE [stats EXCEPT !.successful_writes = @ + n]

\* _write_batch_to_influx
write_batch_to_influx(validated, stats, w, writer_ok, failing) ==
    LET n == Len(validated)
        RECURSIVE RecordAll(_, _)
        RecordAll(st, j) ==
            IF j > n THEN st
            ELSE RecordAll(stats_record_failure(st, validated[j], "write",
                                                "exc"), j + 1)
    IN IF write_raises(w, writer_ok, failing)
       THEN RecordAll([stats EXCEPT !.failed_writes = @ + n], 1)
       ELSE [stats EXCEPT !.successful_writes = @ + n]

----------------------------------------------------------------------------
(* BatchProcessor.process_batches *)

Init ==
    /\ failures = CBInit.failures
    /\ last_failure_time = CBInit.last_failure_time
    /\ is_open = CBInit.is_open
    /\ now = Epoch
    /\ call = NoCall
    /\ web = WebIdle
    /\ liq = LiqIdle
    /\ write_to_influx \in {"main", "db"}
    /\ assets \in AssetLists
    /\ batch_size \in 1..MaxBatchSize
    /\ pc = "fetch_common"
    /\ i = 0
    /\ batch = << >>
    /\ position_data = NoPosition
    /\ ls_trend_data = None
    /\ total_stats = BatchStats(Len(assets))
    /\ batch_stats = BatchStats(0)
    /\ tasks = << >>
    /\ p = 1
    /\ processed_data = << >>
    /\ processed_liquidation_distribution = << >>
    /\ faults = 0
    /\ log = [NoLog EXCEPT
                !.fetched = [j \in 1..Len(assets) |-> "unset"],
                !.proceeded = [j \in 1..Len(assets) |-> "unset"],
                !.valid = [j \in 1..Len(assets) |-> "unset"]]

PositionOutcomes ==
    {[kind |-> "raise", snapshot |-> NoPosition],
     [kind |-> "none", snapshot |-> NoPosition]}
    \cup {[kind |-> "dict", snapshot |-> Snapshot(TRUE, TRUE, S)] :
            S \in SUBSET Range(assets)}
    \cup {[kind |-> "dict", snapshot |-> Snapshot(TRUE, FALSE, Range(assets))],
          [kind |-> "dict", snapshot |-> Snapshot(FALSE, TRUE, {})]}

PositionCost(o) ==
    IF /\ o.kind = "dict"
       /\ o.snapshot.has_lastUpdated
       /\ o.snapshot.has_data
       /\ Range(assets) \subseteq DOMAIN o.snapshot.data
    THEN 0 ELSE 1

\* fetch_ls_trend raises, or yields no data, well-formed data, or data that
\* process_ls_trend cannot process
LsTrendOutcomes == {"raise", None, "ok", "bad"}

\* process_batches up to the test of position_data, with _fetch_common_data
FetchCommon ==
    /\ pc = "fetch_common"
    /\ \E po \in PositionOutcomes, lo \in LsTrendOutcomes :
        /\ po.kind = "raise" => lo = "ok"
        /\ faults + PositionCost(po) + (IF lo = "ok" THEN 0 ELSE 1)
              <= MaxFaults
        /\ faults' = faults + PositionCost(po) + (IF lo = "ok" THEN 0 ELSE 1)
        /\ log' = [log EXCEPT !.common =
                     [position |-> po.kind,
                      ls_trend |-> IF po.kind = "raise" THEN "unset"
                                   ELSE lo]]
        /\ IF po.kind = "raise" \/ lo = "raise"
           THEN /\ total_stats' = stats_record_failure(
                       total_stats, "GLOBAL", "fetch_common", "exc")
                /\ position_data' = NoPosition
                /\ ls_trend_data' = None
                /\ pc' = "done"
           ELSE /\ position_data' = po.snapshot
                /\ ls_trend_data' = lo
                /\ pc' = IF po.snapshot.is_none THEN "done" ELSE "batch_loop"
                /\ UNCHANGED total_stats
    /\ UNCHANGED <<cbvars, now, call, web, liq, write_to_influx, assets, batch_size, i,
                   batch, batch_stats, tasks, p, processed_data,
                   processed_liquidation_distribution>>

\* head of the loop of _process_asset_batches, and _process_single_batch up
\* to the creation of the fetch tasks
NextBatch ==
    /\ pc = "batch_loop"
    /\ IF i < Len(assets)
       THEN /\ batch' = Slice(assets, i, i + batch_size)
            /\ batch_stats' = BatchStats(0)
            /\ tasks' = [j \in 1..Len(batch') |->
                            [NoTask EXCEPT !.st = "new", !.asset = batch'[j]]]
            /\ processed_data' = << >>
            /\ processed_liquidation_distribution' = << >>
            /\ log' = [log EXCEPT !.refs = << >>, !.write = NoLog.write,
                                   !.batches = Append(@, batch')]
            /\ p' = 1
            /\ pc' = "fetching"
       ELSE /\ pc' = "global"
            /\ UNCHANGED <<batch, batch_stats, tasks, processed_data,
                           processed_liquidation_distribution, log, p>>
    /\ UNCHANGED <<cbvars, now, call, web, liq, write_to_influx, assets, batch_size, i,
                   position_data, ls_trend_data, total_stats, faults>>

\* a fetch_asset_data task runs up to its first await; asyncio starts the
\* tasks of a gather in order
FetchStart(j) ==
    /\ pc = "fetching"
    /\ j \in DOMAIN tasks
    /\ tasks[j].st = "new"
    /\ \A m \in 1..(j - 1) : tasks[m].st # "new"
    /\ LET r == fetch_asset_data_begin(batch[j], batch_stats, CB, now)
       IN /\ SetCB(r.cb)
          /\ batch_stats' = r.stats
          /\ tasks' = [tasks EXCEPT ![j].st =
                          IF r.proceed THEN "awaiting" ELSE "done"]
          /\ log' = [log EXCEPT !.fetched[i + j] =
                          IF r.proceed THEN @ ELSE "suppressed"]
    /\ UNCHANGED <<now, call, web, liq, write_to_influx, assets, batch_size, pc, i,
                   batch, position_data, ls_trend_data, total_stats, p,
                   processed_data, processed_liquidation_distribution,
                   faults>>

\* the two collaborator fetches of a task return (or raise); the tasks of a
\* batch finish in any order
FetchFinish(j) ==
    /\ pc = "fetching"
    /\ j \in DOMAIN tasks
    /\ tasks[j].st = "awaiting"
    /\ \A m \in DOMAIN tasks : tasks[m].st # "new"
    /\ \E o \in FetchOutcomes :
        /\ faults + FetchCost(o) <= MaxFaults
        /\ faults' = faults + FetchCost(o)
        /\ LET r == fetch_asset_data_end(batch[j], o, batch_stats, CB, now)
           IN /\ SetCB(r.cb)
              /\ batch_stats' = r.stats
              /\ tasks' = [tasks EXCEPT ![j] = r.result]
              /\ log' = [log EXCEPT !.fetched[i + j] =
                           IF o.raise THEN "raise"
                           ELSE IF r.ok THEN "data" ELSE "none"]
    /\ UNCHANGED <<now, call, web, liq, write_to_influx, assets, batch_size, pc, i,
                   batch, position_data, ls_trend_data, total_stats, p,
                   processed_data, processed_liquidation_distribution>>

\* more than reset_timeout passes while fetches are awaited.  The breaker
\* reads the clock only relative to the last failure of a key with a
\* non-zero failure count, so delays before the first failure are omitted.
Wait ==
    /\ pc = "fetching"
    /\ \E j \in DOMAIN tasks : tasks[j].st = "awaiting"
    /\ \E k \in Keys : failures[k] > 0
    /\ Tick(reset_timeout + 1)

\* a gather that returns as soon as one task of the batch is done
FanIn_on_first_completed ==
    /\ pc = "fetching"
    /\ \E j \in DOMAIN tasks : tasks[j].st = "done"
    /\ IF position_data.has_lastUpdated
       THEN pc' = "processing" /\ log' = log
       ELSE pc' = "raised" /\ log' = [log EXCEPT !.propagated = TRUE]
    /\ UNCHANGED <<cbvars, now, call, web, liq, write_to_influx, assets, batch_size, i,
                   batch, position_data, ls_trend_data, total_stats,
                   batch_stats, tasks, p, processed_data,
                   processed_liquidation_distribution, faults>>

\* the gather of the batch returns; timestamp = position_data['lastUpdated']
FanIn ==
    /\ pc = "fetching"
    /\ \A j \in DOMAIN tasks : tasks[j].st = "done"
    /\ IF position_data.has_lastUpdated
       THEN pc' = "processing" /\ log' = log
       ELSE pc' = "raised" /\ log' = [log EXCEPT !.propagated = TRUE]
    /\ UNCHANGED <<cbvars, now, call, web, liq, write_to_influx, assets, batch_size, i,
                   batch, position_data, ls_trend_data, total_stats,
                   batch_stats, tasks, p, processed_data,
                   processed_liquidation_distribution, faults>>

\* one iteration of the for loop over asset_data_results
ProcessOne ==
    /\ pc = "processing"
    /\ LET asset_data == tasks[p]
           r == process_asset_data(asset_data, position_data, batch_stats,
                                   CB, now)
       IN IF asset_data.ok
          THEN /\ SetCB(r.cb)
               /\ position_data' = r.position_data
               /\ batch_stats' =
                    IF r.ok
                    THEN [r.stats EXCEPT !.successful_fetches = @ + 1,
                                         !.successful_processes = @ + 1]
                    ELSE [r.stats EXCEPT !.successful_fetches = @ + 1,
                                         !.failed_processes = @ + 1]
               /\ processed_data' =
                    IF r.ok THEN Append(processed_data, asset_data.asset)
                    ELSE processed_data
               /\ processed_liquidation_distribution' =
                    IF r.ok /\ r.liquidation
                    THEN Append(processed_liquidation_distribution,
                                asset_data.asset)
                    ELSE processed_liquidation_distribution
               /\ log' = [log EXCEPT
                    !.refs = IF r.ok THEN Append(@, i + p) ELSE @,
                    !.proceeded[i + p] = IF r.ran THEN "yes" ELSE "suppressed",
                    !.process = [asset |-> asset_data.asset,
                                 funding |-> r.funding,
                                 position |-> r.position,
                                 liquidation |-> r.liquidation,
                                 returned |-> r.ok,
                                 success_recorded |-> r.success_recorded,
                                 ran |-> r.ran]]
          ELSE /\ batch_stats' = [batch_stats EXCEPT !.failed_fetches = @ + 1]
               /\ log' = [log EXCEPT !.process = NoLog.process]
               /\ UNCHANGED <<cbvars, position_data, processed_data,
                              processed_liquidation_distribution>>
    /\ p' = p + 1
    /\ pc' = IF p = Len(tasks) THEN "validating" ELSE "processing"
    /\ UNCHANGED <<now, call, web, liq, write_to_influx, assets, batch_size, i, batch,
                   ls_trend_data, total_stats, tasks, faults>>

\* _validate_and_write_batch with _write_batch_to_influx, then
\* _log_batch_results
ValidateAndWriteBatch ==
    /\ pc = "validating"
    /\ IF processed_data = << >>
       THEN UNCHANGED <<batch_stats, faults, log>>
       ELSE \E valid \in SUBSET Range(processed_data) :
            LET accepted == validate_position_data(processed_data, valid)
                validated_positions == Pick(processed_data, accepted)
                n == Len(validated_positions)
                rejected == IF Range(processed_data) \subseteq valid
                            THEN 0 ELSE 1
                counted ==
                    [batch_stats EXCEPT
                        !.successful_validations = @ + n,
                        !.failed_validations = @ + Len(processed_data) - n]
                verdicts ==
                    [j \in DOMAIN log.valid |->
                        IF \E m \in DOMAIN log.refs : log.refs[m] = j
                        THEN IF assets[j] \in valid THEN "yes" ELSE "no"
                        ELSE log.valid[j]]
                handed == Pick(log.refs, accepted)
            IN IF n = 0
               THEN /\ faults + rejected <= MaxFaults
                    /\ faults' = faults + rejected
                    /\ batch_stats' = counted
                    /\ log' = [log EXCEPT !.valid = verdicts]
               ELSE \E writer_ok \in BOOLEAN, failing \in SUBSET (1..n) :
                    /\ ~writer_ok => failing = {}
                    /\ faults + rejected
                          + (IF writer_ok /\ failing = {} THEN 0 ELSE 1)
                          <= MaxFaults
                    /\ faults' = faults + rejected
                          + (IF writer_ok /\ failing = {} THEN 0 ELSE 1)
                    /\ batch_stats' = write_batch_to_influx(
                           validated_positions, counted, write_to_influx,
                           writer_ok, failing)
                    /\ log' = [log EXCEPT
                         !.valid = verdicts,
                         !.handed = @ \o handed,
                         !.stored = @ + write_stored(n, writer_ok, failing),
                         !.write = [n |-> n, writer_ok |-> writer_ok,
                                    failing |-> failing,
                                    raised |-> write_raises(write_to_influx,
                                                  writer_ok, failing)]]
    /\ pc' = "merge"
    /\ UNCHANGED <<cbvars, now, call, web, liq, write_to_influx, assets, batch_size, i,
                   batch, position_data, ls_trend_data, total_stats, tasks, p,
                   processed_data, processed_liquidation_distribution>>

\* _process_single_batch returns; total_stats.update_from_batch(batch_stats)
MergeBatch ==
    /\ pc = "merge"
    /\ total_stats' = update_from_batch(total_stats, batch_stats)
    /\ i' = i + batch_size
    /\ pc' = "batch_loop"
    /\ UNCHANGED <<cbvars, now, call, web, liq, write_to_influx, assets, batch_size,
                   batch, position_data, ls_trend_data, batch_stats, tasks, p,
                   processed_data, processed_liquidation_distribution, faults,
                   log>>

\* _process_global_data: process_global_position, process_ls_trend,
\* validate_global_position_data, validate_ls_trend_data, write_to_influx
\* and the final summary
ProcessGlobalData ==
    /\ pc = "global"
    /\ \E schema_ok \in BOOLEAN, writer_ok \in BOOLEAN, write_ok \in BOOLEAN :
        LET \* process_global_position puts data.get('lastUpdated', str) in
            \* 'timestamp'; validate_global_position_data returns the
            \* GlobalMarketMetrics object, or the raw dict when the schema
            \* rejects it
            is_valid == schema_ok /\ position_data.has_lastUpdated
            \* process_ls_trend returns None for None and for data it cannot
            \* process, and validate_ls_trend_data(None) raises
            trend_raises == ls_trend_data # "ok"
            raises == trend_raises
                      \/ write_raises(write_to_influx, writer_ok, {})
            cost == (IF schema_ok THEN 0 ELSE 1)
                    + (IF writer_ok /\ write_ok THEN 0 ELSE 1)
        IN /\ trend_raises => writer_ok /\ write_ok
           /\ ~writer_ok => write_ok
           /\ faults + cost <= MaxFaults
           /\ faults' = faults + cost
           /\ total_stats' =
                IF raises
                THEN stats_record_failure(total_stats, "GLOBAL",
                                          "process_global", "exc")
                ELSE total_stats
           /\ log' = [log EXCEPT
                !.global = [handed |-> IF trend_raises THEN 0 ELSE 1,
                            valid |-> is_valid,
                            stored |-> IF ~trend_raises /\ writer_ok
                                          /\ write_ok /\ is_valid
                                       THEN 1 ELSE 0],
                !.summaries = IF raises THEN @ ELSE @ + 1]
    /\ pc' = "done"
    /\ UNCHANGED <<cbvars, now, call, web, liq, write_to_influx, assets, batch_size, i,
                   batch, position_data, ls_trend_data, batch_stats, tasks, p,
                   processed_data, processed_liquidation_distribution>>

Next ==
    \/ FetchCommon
    \/ NextBatch
    \/ \E j \in 1..MaxBatchSize : FetchStart(j)
    \/ \E j \in 1..MaxBatchSize : FetchFinish(j)
    \/ Wait
    \/ FanIn
    \/ ProcessOne
    \/ ValidateAndWriteBatch
    \/ MergeBatch
    \/ ProcessGlobalData

Spec == Init /\ [][Next]_vars

----------------------------------------------------------------------------
(* Claims on the CircuitBreaker (SpecCB) *)

\* C3: can_proceed(key) returns true whenever the key's failure count is
\* below failure_threshold, and returns false while the count has reached
\* the threshold and now - last_failure_time[key] <= reset_timeout.
C3_CanProceedFollowsCount ==
    call.op = "can_proceed" =>
        /\ (call.pre_failures < failure_threshold => call.ret)
        /\ (call.pre_failures >= failure_threshold
              /\ call.elapsed <= reset_timeout => ~call.ret)

\* C4: in every reachable state is_open[key] is true only if
\* failures[key] >= failure_threshold.
C4_OpenOnlyAtThreshold ==
    \A k \in Keys : is_open[k] => failures[k] >= failure_threshold

\* C5 (as stated): an open breaker closes only inside a can_proceed(key)
\* call made when now - last_failure_time[key] > reset_timeout.
C5_ClosesOnlyInCanProceed ==
    [][\A k \in Keys :
          (is_open[k] /\ ~is_open'[k]) =>
              /\ call'.key = k
              /\ call'.op = "can_proceed"
              /\ now - last_failure_time[k] > reset_timeout]_vars

\* C5 (amended): an open breaker closes only inside a can_proceed(key) call
\* made when now - last_failure_time[key] > reset_timeout, or inside a
\* record_success(key) call; no call on another key and no passage of time
\* closes it.
C5_ClosesOnlyLazilyOrOnSuccess ==
    [][\A k \in Keys :
          (is_open[k] /\ ~is_open'[k]) =>
              /\ call'.key = k
              /\ \/ /\ call'.op = "can_proceed"
                    /\ now - last_failure_time[k] > reset_timeout
                 \/ call'.op = "record_success"]_vars

\* an open key was let through, and thereby closed, by can_proceed
C5_Witness ==
    /\ call.op = "can_proceed"
    /\ call.was_open
    /\ call.ret
    /\ ~is_open[call.key]

----------------------------------------------------------------------------
(* Claims on a run of process_batches (Spec) *)

FetchCommonSucceeded ==
    log.common.position = "dict" /\ log.common.ls_trend = "ok"

FetchCommonFailed ==
    \/ log.common.position \in {"raise", "none"}
    \/ log.common.ls_trend \in {"raise", None}

HasGlobalRecord(stats) ==
    \E j \in DOMAIN stats.failures : stats.failures[j].asset = "GLOBAL"

\* the asset at list position idx was fetched, let through by the breaker,
\* and is present in the shared snapshot
OwnFetchAndProcessOk(idx) ==
    /\ log.fetched[idx] = "data"
    /\ log.proceeded[idx] = "yes"
    /\ position_data.has_data
    /\ assets[idx] \in DOMAIN position_data.data

\* C1: whatever happens to the other assets of the run, every asset of a
\* finished batch has been fetched, has been given a validation verdict when
\* its own fetch and processing succeeded, and has been handed to the store
\* write exactly when its own fetch, processing and validation succeeded;
\* a run that returns has finished every batch.
C1_FailureIsolation ==
    (pc \in {"batch_loop", "global", "done"} /\ ~position_data.is_none) =>
        /\ pc = "done" => i >= Len(assets)
        /\ \A idx \in 1..Min(i, Len(assets)) :
              /\ log.fetched[idx] # "unset"
              /\ OwnFetchAndProcessOk(idx) => log.valid[idx] # "unset"
              /\ (OwnFetchAndProcessOk(idx) /\ log.valid[idx] = "yes")
                    <=> idx \in Range(log.handed)

\* assets [A, B, C], batch size 2, B's processing fails: A and C are handed
\* to the store and failed_processes is 1
C1_Witness ==
    /\ pc = "done"
    /\ assets = <<"A", "B", "C">>
    /\ batch_size = 2
    /\ log.fetched = <<"data", "data", "data">>
    /\ position_data.has_data
    /\ "B" \notin DOMAIN position_data.data
    /\ log.handed = <<1, 3>>
    /\ total_stats.failed_processes = 1

\* C2: process_asset_data returns a record and records success on the
\* process key whenever at least one of the three sub-derivations produced
\* a non-empty value.
C2_PartialResultReturned ==
    (log.process.ran /\ (log.process.funding \/ log.process.position
                            \/ log.process.liquidation)) =>
        log.process.returned /\ log.process.success_recorded

\* C6: when the store write of a batch fails, failed_writes grows by the
\* number of records of the write attempt, with one write FailureRecord per
\* record, successful_writes does not count them, and the batch loop goes on.
C6_WriteFailureCounted ==
    (pc = "merge" /\ (~log.write.writer_ok \/ log.write.failing # {})) =>
        /\ batch_stats.failed_writes = log.write.n
        /\ CountSteps(batch_stats.failures, {"write"}) = log.write.n
        /\ batch_stats.successful_writes = 0

\* C7: if the position snapshot or the trend snapshot cannot be obtained
\* (the fetch raises or yields no data), the run ends with no per-asset
\* fetch, no batch, no store write, and a FailureRecord for "GLOBAL".
C7_CommonFailureEndsRun ==
    (pc \in {"done", "raised"} /\ FetchCommonFailed) =>
        /\ \A idx \in DOMAIN log.fetched : log.fetched[idx] = "unset"
        /\ i = 0
        /\ log.handed = << >>
        /\ log.global.handed = 0
        /\ HasGlobalRecord(total_stats)

\* C8: an exception raised while fetching the shared data is recorded in
\* the run statistics and then propagated out of process_batches.
C8_CommonExceptionPropagates ==
    (pc \in {"done", "raised"}
        /\ (log.common.position = "raise" \/ log.common.ls_trend = "raise")) =>
        /\ HasGlobalRecord(total_stats)
        /\ log.propagated
        /\ pc = "raised"

\* C9: once FETCH_COMMON has succeeded, no exception propagates out of
\* process_batches.
C9_NoExceptionAfterCommon ==
    FetchCommonSucceeded => (pc # "raised" /\ ~log.propagated)

\* C10: at the end of every batch and of the run, for each stage the number
\* of FailureRecords of that stage is at least the stage's failed counter.
FailuresItemized(stats) ==
    /\ CountSteps(stats.failures, {"fetch"}) >= stats.failed_fetches
    /\ CountSteps(stats.failures, {"process"}) >= stats.failed_processes
    /\ CountSteps(stats.failures, {"validation", "validate"})
          >= stats.failed_validations
    /\ CountSteps(stats.failures, {"write"}) >= stats.failed_writes

C10_FailuresItemized ==
    /\ pc = "merge" => FailuresItemized(batch_stats)
    /\ pc \in {"batch_loop", "global", "done"} => FailuresItemized(total_stats)

----------------------------------------------------------------------------
(* Claims on batching and ordering (Spec) *)

\* the assets of all batches, in order
RECURSIVE Flatten(_)
Flatten(bs) == IF bs = << >> THEN << >> ELSE Head(bs) \o Flatten(Tail(bs))

\* C13: the batches are contiguous slices of the asset list in input order,
\* every batch has exactly batch_size assets except possibly the last, a
\* finished batch loop has made ceil(N / batch_size) batches, and every list
\* position is in exactly one batch.
C13_BatchesPartition ==
    LET N == Len(assets)
        b == batch_size
        n == Len(log.batches)
    IN /\ \A k \in 1..n :
            /\ (k - 1) * b < N
            /\ Len(log.batches[k]) = (IF k * b <= N THEN b ELSE N - (k - 1) * b)
            /\ \A m \in 1..Len(log.batches[k]) :
                  log.batches[k][m] = assets[(k - 1) * b + m]
       /\ (pc \in {"global", "done"} /\ ~position_data.is_none) =>
            /\ n = (N + b - 1) \div b
            /\ Flatten(log.batches) = assets

\* [A, B, C] with batch size 2 was split into [A, B] and [C]
C13_Witness ==
    /\ pc = "done"
    /\ batch_size = 2
    /\ log.batches = << <<"A", "B">>, <<"C">> >>

\* the last list position (at most n) that holds asset a, 0 if none
LastIdx(a, n) ==
    LET S == {idx \in 1..Min(n, Len(assets)) : assets[idx] = a}
    IN IF S = {} THEN 0 ELSE CHOOSE idx \in S : \A m \in S : m <= idx

\* the asset at list position idx occurs once in the batch of idx (the tasks
\* of one batch finish in any order)
OncePerBatch(idx) ==
    LET first == ((idx - 1) \div batch_size) * batch_size + 1
    IN \A m \in first..Min(first + batch_size - 1, Len(assets)) :
           assets[m] = assets[idx] => m = idx

\* C11: batches are worked on in input order, and whenever a batch is being
\* fetched, processed, validated or written, every asset of the earlier
\* batches has its fetch outcome, its processing and validation outcome and
\* its write behind it, the counters of the earlier batches are in the
\* run-level statistics, and before the first fetch of the batch starts the
\* breaker reflects the last outcome of every earlier asset (of every asset
\* that is not listed twice in one batch).
C11_BatchesInOrder ==
    pc \in {"fetching", "processing", "validating", "merge"} =>
        /\ i = (Len(log.batches) - 1) * batch_size
        /\ batch = log.batches[Len(log.batches)]
        /\ total_stats.successful_fetches + total_stats.failed_fetches = i
        /\ total_stats.successful_processes + total_stats.failed_processes
              = total_stats.successful_fetches
        /\ \A idx \in 1..i :
              /\ log.fetched[idx] # "unset"
              /\ log.fetched[idx] = "data" => log.proceeded[idx] # "unset"
              /\ OwnFetchAndProcessOk(idx) => log.valid[idx] # "unset"
              /\ (OwnFetchAndProcessOk(idx) /\ log.valid[idx] = "yes")
                    => idx \in Range(log.handed)
        /\ \A idx \in Range(log.handed) :
              idx <= (IF pc = "merge" THEN i + Len(batch) ELSE i)
        /\ \A idx \in (i + 1)..Len(assets) :
              idx > i + Len(batch) =>
                  /\ log.fetched[idx] = "unset"
                  /\ log.proceeded[idx] = "unset"
        /\ (pc = "fetching" /\ \A j \in DOMAIN tasks : tasks[j].st = "new") =>
              \A a \in Range(assets) :
                  LET last == LastIdx(a, i)
                  IN (last > 0 /\ OncePerBatch(last)) =>
                       /\ log.fetched[last] = "data"
                             => failures[<<"fetch", a>>] = 0
                       /\ log.fetched[last] \in {"none", "raise"}
                             => failures[<<"fetch", a>>] >= 1
                       /\ OwnFetchAndProcessOk(last)
                             => failures[<<"process", a>>] = 0

\* the second batch of [A, B, C] is being fetched after a first batch in
\* which the fetch of A failed
C11_Witness ==
    /\ pc = "fetching"
    /\ i = 2
    /\ batch = <<"C">>
    /\ tasks[1].st = "awaiting"
    /\ log.fetched[1] = "none"
    /\ log.fetched[2] = "data"
    /\ total_stats.failed_fetches = 1
    /\ failures[<<"fetch", "A">>] = 1

\* C12: a fetch of a batch returns only after every fetch task of the batch
\* has been started, no asset of a batch is processed, validated or written
\* while a fetch task of the batch is still running, and nothing of the batch
\* is processed during the fetch phase.
C12_FanOutFanIn ==
    /\ pc \in {"processing", "validating", "merge"} =>
          \A j \in DOMAIN tasks :
              /\ tasks[j].st = "done"
              /\ log.fetched[i + j] # "unset"
    /\ pc = "fetching" =>
          /\ p = 1
          /\ processed_data = << >>
          /\ \A j \in DOMAIN tasks :
                /\ log.proceeded[i + j] = "unset"
                /\ log.valid[i + j] = "unset"
                /\ (i + j) \notin Range(log.handed)
          /\ (\E j \in DOMAIN tasks :
                  log.fetched[i + j] \in {"data", "none", "raise"})
                => \A m \in DOMAIN tasks : tasks[m].st # "new"

\* the processing of a batch of two starts after the second fetch took more
\* than reset_timeout longer than the first
C12_Witness ==
    /\ pc = "processing"
    /\ p = 1
    /\ Len(tasks) = 2
    /\ now > Epoch
    /\ log.fetched[i + 1] = "none"
    /\ log.fetched[i + 2] = "data"

\* C14: in a finished run in which both shared snapshots were obtained, the
\* global record has been handed to the store write exactly once, after the
\* last batch.
C14_GlobalWrittenOnce ==
    (pc \in {"done", "raised"} /\ log.common.position = "dict"
        /\ log.common.ls_trend \in {"ok", "bad"}) =>
        /\ log.global.handed = 1
        /\ i >= Len(assets)

\* C15: a finished run in which both shared snapshots were obtained has
\* emitted the final summary exactly once.
C15_SummaryEmittedOnce ==
    (pc \in {"done", "raised"} /\ FetchCommonSucceeded) =>
        log.summaries = 1

----------------------------------------------------------------------------
(* Claims on the CircuitBreaker, continued (SpecCB) *)

\* C20: after a record_success(key), whatever the failures before it, the
\* key's failure count is 0 and its open flag is false, and a can_proceed(key)
\* made next, at any later time, returns true.
C20_SuccessResets ==
    call.op = "record_success" =>
        /\ failures[call.key] = 0
        /\ ~is_open[call.key]
        /\ \A t \in now..MaxTime : can_proceed(CB, call.key, t)

\* record_success was called on an open key that had reached the threshold
C20_Witness ==
    /\ call.op = "record_success"
    /\ call.was_open
    /\ call.pre_failures >= failure_threshold
    /\ call.elapsed <= reset_timeout

----------------------------------------------------------------------------
(* Claims on the DataProcessor (SpecFetch, SpecProcess) *)

\* the failure count a single record_failure leaves, given the count before
\* the call and the time since the key's last failure
CountAfterOneFailure(pre, elapsed) ==
    IF elapsed > reset_timeout THEN 1 ELSE pre + 1

\* C16: when can_proceed is false for the asset's fetch key, fetch_asset_data
\* returns absent, invokes neither fetch collaborator, leaves the breaker as
\* it is, and appends exactly one FailureRecord, of stage fetch with the
\* description "Circuit breaker open".
C16_SuppressedFetch ==
    (call.op = "fetch_asset_data" /\ call.was_open
        /\ call.elapsed <= reset_timeout) =>
        /\ ~call.ret
        /\ tasks = << >>
        /\ ~log.fetch.invoked
        /\ batch_stats.failures =
              <<FailureRecord(call.key[2], "fetch", "Circuit breaker open")>>
        /\ is_open[call.key]
        /\ failures[call.key] = call.pre_failures

\* a fetch was suppressed by a breaker that three failed fetches had opened
C16_Witness ==
    /\ call.op = "fetch_asset_data"
    /\ call.was_open
    /\ call.pre_failures = failure_threshold
    /\ call.elapsed <= reset_timeout
    /\ ~call.ret

\* C17: when the breaker lets the fetch proceed and no collaborator raises:
\* if both collaborators return no data, fetch_asset_data returns absent,
\* the fetch key has had exactly one record_failure, and exactly one
\* FailureRecord, of stage fetch, is appended; otherwise it returns the
\* result with what the two collaborators returned, the fetch key has had a
\* record_success, and no FailureRecord is appended.
C17_FetchOutcome ==
    (call.op = "fetch_asset_data" /\ log.fetch.invoked /\ ~log.fetch.raise) =>
        IF log.fetch.liquidation_data = None /\ log.fetch.funding_history = None
        THEN /\ ~call.ret
             /\ tasks = << >>
             /\ failures[call.key] =
                   CountAfterOneFailure(
                       IF call.was_open THEN 0 ELSE call.pre_failures,
                       call.elapsed + log.fetch.waited)
             /\ last_failure_time[call.key] = now
             /\ Len(batch_stats.failures) = 1
             /\ batch_stats.failures[1].step = "fetch"
             /\ batch_stats.failures[1].asset = call.key[2]
        ELSE /\ call.ret
             /\ Len(tasks) = 1
             /\ tasks[1].asset = call.key[2]
             /\ tasks[1].liquidation_data = log.fetch.liquidation_data
             /\ tasks[1].funding_history = log.fetch.funding_history
             /\ failures[call.key] = 0
             /\ ~is_open[call.key]
             /\ batch_stats.failures = << >>

\* after two failed fetches, a fetch in which only the funding collaborator
\* returned data was returned as a partial result
C17_Witness ==
    /\ call.op = "fetch_asset_data"
    /\ log.fetch.invoked
    /\ ~log.fetch.raise
    /\ log.fetch.liquidation_data = None
    /\ log.fetch.funding_history = "ok"
    /\ call.pre_failures = 2
    /\ call.ret

\* C18: when process_asset_data is let through by the breaker and returns
\* absent, the asset's process key has had exactly one record_failure and
\* exactly one FailureRecord whose stage is "process" is appended, for that
\* asset.
C18_ProcessFailureRecorded ==
    (call.op = "process_asset_data" /\ log.process.ran /\ ~call.ret) =>
        /\ CountSteps(batch_stats.failures, {"process"}) = 1
        /\ \A j \in DOMAIN batch_stats.failures :
              batch_stats.failures[j].asset = call.key[2]
        /\ failures[call.key] =
              CountAfterOneFailure(
                  IF call.was_open THEN 0 ELSE call.pre_failures,
                  call.elapsed)
        /\ last_failure_time[call.key] = now

\* the processing of an asset that is not in the snapshot returned absent
\* for the second time in a row
C18_Witness ==
    /\ call.op = "process_asset_data"
    /\ log.process.ran
    /\ ~call.ret
    /\ position_data.has_data
    /\ call.pre_failures = 1
    /\ failures[call.key] = 2

\* C19: in a process_asset_data that the breaker lets through, each
\* sub-derivation that fails with an exception (funding, position lookup,
\* liquidation) leaves exactly one FailureRecord tagged with its own name,
\* a sub-derivation that does not fail leaves none, and a failure of one
\* does not keep the others from producing their values.
C19_SubFailuresTagged ==
    (call.op = "process_asset_data" /\ log.process.ran) =>
        /\ CountSteps(batch_stats.failures, {"process_funding"}) =
              (IF tasks[1].funding_history = "bad" THEN 1 ELSE 0)
        /\ CountSteps(batch_stats.failures, {"process_position"}) =
              (IF ~position_data.has_data THEN 1 ELSE 0)
        /\ CountSteps(batch_stats.failures, {"process_liquidation"}) =
              (IF tasks[1].liquidation_data = "bad" THEN 1 ELSE 0)
        /\ log.process.funding <=> tasks[1].funding_history = "ok"
        /\ log.process.position <=>
              (position_data.has_data
                  /\ call.key[2] \in DOMAIN position_data.data)
        /\ log.process.liquidation <=> tasks[1].liquidation_data = "ok"

----------------------------------------------------------------------------
(* The breaker's three operations, one call at a time (SpecCB) *)

\* C21: can_proceed on an open key returns true exactly when the time since
\* the key's last failure is strictly greater than reset_timeout, and then
\* the key is closed and its failure count is 0; when the elapsed time is
\* equal to reset_timeout or smaller it returns false (and the key's state
\* stays as it was).
C21_HalfOpenAfterTimeout ==
    (call.op = "can_proceed" /\ call.was_open) =>
        /\ call.ret <=> (call.elapsed > reset_timeout)
        /\ call.ret => (~is_open[call.key] /\ failures[call.key] = 0)
        /\ ~call.ret => /\ call.elapsed <= reset_timeout
                        /\ is_open[call.key]
                        /\ failures[call.key] = call.pre_failures

\* an open key was asked exactly reset_timeout after its last failure and
\* was refused
C21_Witness ==
    /\ call.op = "can_proceed"
    /\ call.was_open
    /\ call.pre_failures >= failure_threshold
    /\ call.elapsed = reset_timeout
    /\ ~call.ret

\* C22: record_failure sets the key's count to 1 when the key's previous
\* failure is more than reset_timeout in the past (or there was none) and
\* otherwise increments it, sets the key's last failure time to the current
\* time, and sets the open flag to true exactly when the resulting count is
\* at least failure_threshold (below the threshold it does not touch the
\* flag).
C22_RecordFailureEffect ==
    call.op = "record_failure" =>
        LET k == call.key
        IN /\ failures[k] = (IF call.elapsed > reset_timeout
                             THEN 1 ELSE call.pre_failures + 1)
           /\ last_failure_time[k] = now
           /\ failures[k] >= failure_threshold => is_open[k]
           /\ failures[k] < failure_threshold => (is_open[k] = call.was_open)

\* a failure that arrives more than reset_timeout after a streak of two
\* starts a fresh streak
C22_Witness ==
    /\ call.op = "record_failure"
    /\ call.pre_failures = 2
    /\ call.elapsed > reset_timeout
    /\ failures[call.key] = 1
    /\ last_failure_time[call.key] = now

\* C23: a CircuitBreaker call on one operation key leaves the failure
\* count, last-failure time and open flag of every other key unchanged; in
\* particular failures on an asset's fetch key never change what can_proceed
\* answers for the asset's process key, and vice versa.
C23_OtherKeysUntouched ==
    [][\A k \in Keys :
          (call'.op = "none" \/ k # call'.key) =>
              /\ failures'[k] = failures[k]
              /\ last_failure_time'[k] = last_failure_time[k]
              /\ is_open'[k] = is_open[k]
              /\ can_proceed(CB, k, now)
                     = can_proceed([failures |-> failures',
                                    last_failure_time |-> last_failure_time',
                                    is_open |-> is_open'], k, now)]_vars

\* the asset's fetch key is open while its process key, untouched, is let
\* through
C23_Witness ==
    /\ is_open[<<"fetch", "A">>]
    /\ failures[<<"fetch", "A">>] >= failure_threshold
    /\ failures[<<"process", "A">>] = 0
    /\ last_failure_time[<<"process", "A">>] = 0
    /\ call.op = "can_proceed"
    /\ call.key = <<"process", "A">>
    /\ call.ret

----------------------------------------------------------------------------
(* Validation, the store and the merge of the statistics (Spec) *)

\* C24: within a batch, a record rejected by schema validation is counted
\* in failed_validations and is not written, while every record of the same
\* batch that passes validation is handed to the store write; the two
\* validation counters together grow by exactly the number of processed
\* records of the batch.
C24_RejectedCountedAcceptedWritten ==
    pc = "merge" =>
        LET rejected == {m \in DOMAIN log.refs : log.valid[log.refs[m]] = "no"}
            accepted == {m \in DOMAIN log.refs : log.valid[log.refs[m]] = "yes"}
        IN /\ Len(log.refs) = Len(processed_data)
           /\ batch_stats.failed_validations = Cardinality(rejected)
           /\ batch_stats.successful_validations = Cardinality(accepted)
           /\ batch_stats.successful_validations
                + batch_stats.failed_validations = Len(processed_data)
           /\ \A m \in DOMAIN log.refs :
                 (\E h \in DOMAIN log.handed : log.handed[h] = log.refs[m])
                     <=> m \in accepted
           /\ log.write.n = Cardinality(accepted)

\* a batch of two processed records, the first rejected and the second
\* accepted and handed to the write
C24_Witness ==
    /\ pc = "merge"
    /\ Len(log.refs) = 2
    /\ log.valid[log.refs[1]] = "no"
    /\ log.valid[log.refs[2]] = "yes"
    /\ batch_stats.failed_validations = 1
    /\ log.write.n = 1
    /\ \E h \in DOMAIN log.handed : log.handed[h] = log.refs[2]

\* C25: only data that passed schema validation is handed to the store:
\* every position record passed to the position write was accepted by
\* validate_position_data, and a global record is passed to the global
\* write only if validate_global_position_data accepted it.
C25_OnlyValidatedDataHanded ==
    /\ \A h \in DOMAIN log.handed : log.valid[log.handed[h]] = "yes"
    /\ log.global.handed > 0 => log.global.valid

\* C26: update_from_batch(other) adds each of the eight stage counters of
\* other to the receiver's, appends other's failure records after the
\* receiver's records in their order, and leaves other unchanged; so each
\* merge of the run extends the run-level failure sequence by the batch's
\* failure sequence, in batch processing order.
C26_MergeAddsAndAppends ==
    [][(pc = "merge" /\ pc' # "merge") =>
          /\ total_stats'.successful_fetches
                = total_stats.successful_fetches + batch_stats.successful_fetches
          /\ total_stats'.failed_fetches
                = total_stats.failed_fetches + batch_stats.failed_fetches
          /\ total_stats'.successful_processes
                = total_stats.successful_processes
                    + batch_stats.successful_processes
          /\ total_stats'.failed_processes
                = total_stats.failed_processes + batch_stats.failed_processes
          /\ total_stats'.successful_validations
                = total_stats.successful_validations
                    + batch_stats.successful_validations
          /\ total_stats'.failed_validations
                = total_stats.failed_validations + batch_stats.failed_validations
          /\ total_stats'.successful_writes
                = total_stats.successful_writes + batch_stats.successful_writes
          /\ total_stats'.failed_writes
                = total_stats.failed_writes + batch_stats.failed_writes
          /\ total_stats'.failures
                = total_stats.failures \o batch_stats.failures
          /\ batch_stats' = batch_stats
          /\ log.batches[Len(log.batches)] = batch]_vars

\* two batches were merged, each with failure records of its own asset, and
\* the records of the first batch precede those of the second
C26_Witness ==
    /\ pc = "batch_loop"
    /\ Len(log.batches) = 2
    /\ Len(total_stats.failures) = 4
    /\ total_stats.failures[1].asset = "A"
    /\ total_stats.failures[2].asset = "A"
    /\ total_stats.failures[3].asset = "B"
    /\ total_stats.failures[4].asset = "B"
    /\ total_stats.failed_processes = 2

\* C28: for every asset list passed to process_batches, no two concurrently
\* running fetch tasks of a batch are between their can_proceed and their
\* record_failure / record_success on the same operation key.
C28_NoTwoTasksOnOneKey ==
    pc = "fetching" =>
        \A j \in DOMAIN tasks, m \in DOMAIN tasks :
            (j # m /\ tasks[j].st = "awaiting" /\ tasks[m].st = "awaiting")
                => batch[j] # batch[m]

----------------------------------------------------------------------------
(* The merge as a function (SpecMerge) *)

Counters(st) ==
    <<st.successful_fetches, st.failed_fetches,
      st.successful_processes, st.failed_processes,
      st.successful_validations, st.failed_validations,
      st.successful_writes, st.failed_writes>>

\* the sum of the counters of a sequence of statistics, counter by counter
RECURSIVE CounterSums(_)
CounterSums(bs) ==
    IF bs = << >> THEN [c \in 1..8 |-> 0]
    ELSE [c \in 1..8 |-> Counters(Head(bs))[c] + CounterSums(Tail(bs))[c]]

\* bs merged from left to right into acc
RECURSIVE MergeAll(_, _)
MergeAll(acc, bs) ==
    IF bs = << >> THEN acc
    ELSE MergeAll(update_from_batch(acc, Head(bs)), Tail(bs))

MergeOrders(n) ==
    {f \in [1..n -> 1..n] : \A x, y \in 1..n : f[x] = f[y] => x = y}

\* number of failure records of bs[1..m]
RECURSIVE FailuresBefore(_, _)
FailuresBefore(bs, m) ==
    IF m = 0 THEN 0 ELSE FailuresBefore(bs, m - 1) + Len(bs[m].failures)

\* C27: merging is associative and commutative on the counters: whatever
\* the order (and the grouping) in which the batch statistics are merged
\* into a fresh run-level object, the eight counters end as the sums over
\* the batches, and each batch's failure records keep their within-batch
\* order in the merged sequence.
C27_MergeOrderIrrelevant ==
    LET n == Len(log.merged)
        fresh == BatchStats(0)
    IN /\ Counters(total_stats) = CounterSums(log.merged)
       /\ \A f \in MergeOrders(n) :
            LET bs == [j \in 1..n |-> log.merged[f[j]]]
                merged == MergeAll(fresh, bs)
            IN /\ Counters(merged) = Counters(total_stats)
               /\ \A j \in 1..n :
                    SubSeq(merged.failures, FailuresBefore(bs, j - 1) + 1,
                           FailuresBefore(bs, j)) = bs[j].failures
               /\ \A m \in 0..n :
                    Counters(update_from_batch(
                                 MergeAll(fresh, SubSeq(bs, 1, m)),
                                 MergeAll(fresh, SubSeq(bs, m + 1, n))))
                        = Counters(total_stats)

\* three different batch statistics were merged, two of them with failure
\* records, one of these with two records
C27_Witness ==
    /\ Len(log.merged) = 3
    /\ Cardinality(Range(log.merged)) = 3
    /\ \E j \in 1..3 : Len(log.merged[j].failures) = 2
    /\ \E j \in 1..3 : Len(log.merged[j].failures) = 1
    /\ Len(total_stats.failures) = 3
    /\ total_stats.failed_fetches = 1

----------------------------------------------------------------------------
(* The shared breaker and statistics under concurrent tasks (SpecFanOut) *)

\* one key's state after the calls cs made on it one after the other,
\* starting from st
RECURSIVE Replay(_, _)
Replay(st, cs) ==
    IF cs = << >> THEN st
    ELSE LET c == Head(cs)
             expired == c.t - st.last_failure_time > reset_timeout
             n == IF expired THEN 1 ELSE st.failures + 1
             next ==
                CASE c.op = "record_failure" ->
                        [failures |-> n, last_failure_time |-> c.t,
                         is_open |-> st.is_open \/ n >= failure_threshold]
                  [] c.op = "record_success" ->
                        [st EXCEPT !.failures = 0, !.is_open = FALSE]
                  [] OTHER ->
                        IF st.is_open /\ expired
                        THEN [st EXCEPT !.failures = 0, !.is_open = FALSE]
                        ELSE st
         IN Replay(next, Tail(cs))

\* the calls of cs made on the fetch key of asset a, in order
RECURSIVE CallsOn(_, _)
CallsOn(cs, a) ==
    IF cs = << >> THEN << >>
    ELSE (IF Head(cs).asset = a THEN <<Head(cs)>> ELSE << >>)
         \o CallsOn(Tail(cs), a)

\* the assets of the calls of cs that recorded a failure: a refused
\* can_proceed or a record_failure
RECURSIVE FailedAssets(_)
FailedAssets(cs) ==
    IF cs = << >> THEN << >>
    ELSE (IF Head(cs).op = "record_failure"
             \/ (Head(cs).op = "can_proceed" /\ ~Head(cs).ret)
          THEN <<Head(cs).asset>> ELSE << >>)
         \o FailedAssets(Tail(cs))

\* C29: under every interleaving of the concurrent fetch tasks of a batch
\* no update to the shared CircuitBreaker or to the batch statistics is
\* lost: each key's breaker state is the state its calls produce one after
\* the other, and the statistics hold exactly one FailureRecord per failure
\* recorded by a task, in the order the tasks recorded them.
C29_NoLostUpdate ==
    tasks # << >> =>
    /\ \A a \in Assets :
         LET k == <<"fetch", a>>
         IN [failures |-> failures[k],
             last_failure_time |-> last_failure_time[k],
             is_open |-> is_open[k]]
            = Replay([failures |-> log.cb0.failures[k],
                      last_failure_time |-> log.cb0.last_failure_time[k],
                      is_open |-> log.cb0.is_open[k]],
                     CallsOn(log.calls, a))
    /\ Len(batch_stats.failures) = Len(FailedAssets(log.calls))
    /\ \A m \in DOMAIN batch_stats.failures :
         /\ batch_stats.failures[m].asset = FailedAssets(log.calls)[m]
         /\ batch_stats.failures[m].step = "fetch"

\* both tasks of a batch that names one asset twice failed, and after the
\* fan-in the key's count and the statistics show both failures
C29_Witness ==
    /\ Len(tasks) = 2
    /\ batch[1] = batch[2]
    /\ \A j \in DOMAIN tasks : tasks[j].st = "done"
    /\ Len(batch_stats.failures) = 2
    /\ log.cb0.failures[<<"fetch", batch[1]>>] = 1
    /\ failures[<<"fetch", batch[1]>>] = failure_threshold
    /\ is_open[<<"fetch", batch[1]>>]

----------------------------------------------------------------------------
(* fetch_website (SpecWeb) *)

\* C30: fetch_website makes at most max_retries request attempts, returns
\* after a response that is HTTP 401 or 403 without a further attempt, and
\* returns absent once the attempts are exhausted.
C30_BoundedAttempts ==
    /\ Len(web.responses) <= web.max_retries
    /\ \A m \in DOMAIN web.responses :
         web.responses[m].status \in {401, 403} =>
            /\ m = Len(web.responses)
            /\ web.pc = "returned"
    /\ (web.pc = "returned" /\ web.retries = web.max_retries)
          => web.result = None

\* number of asyncio.sleep calls of a fetch_website call that has counted
\* n retries: the last pass through the handler does not sleep
Sleeps(w) ==
    IF w.retries < w.max_retries THEN w.retries
    ELSE IF w.retries = 0 THEN 0 ELSE w.retries - 1

\* C31: whenever a request of fetch_website, GET or POST, is answered with
\* HTTP 429 or 503 and fewer than max_retries attempts have been made, the
\* answer is not returned as data: the function waits and tries again; the
\* waits are 2 s, 4 s, ... (doubling), and no wait follows the final
\* failed attempt.
C31_TransientStatusRetried ==
    /\ \A m \in DOMAIN web.responses :
         web.responses[m].status \in {429, 503} =>
            IF m < web.max_retries
            THEN \/ m < Len(web.responses)
                 \/ web.pc \in {"sleeping", "loop"}
            ELSE web.pc = "returned"
    /\ web.slept = 2 ^ (Sleeps(web) + 1) - 2

\* C40: every browser launched by fetch_website is closed before the
\* function returns or raises, on every exit path; it is open only while
\* the call is in progress.
C40_BrowserClosedOnExit ==
    /\ web.pc \in {"returned", "raised"} => web.browser # "open"
    /\ web.browser = "open" => web.pc \in {"setup", "loop", "sleeping"}
    /\ web.pc = "returned" => web.browser = "closed"

\* the page could not be configured: the call raised after the browser had
\* been launched, and the browser is closed
C40_Witness ==
    /\ web.pc = "raised"
    /\ web.browser = "closed"
    /\ web.responses = << >>

----------------------------------------------------------------------------
(* process_liquidation (SpecLiq) *)

LiqEvents == {sl \in LiqSlots : liq.liquidation_data[sl] # 0}

\* the largest multiple of interval that is not above the price
FloorBucket(price) ==
    CHOOSE b \in {q * interval : q \in -1..3} : b <= price /\ price < b + interval

\* the sums of the columns of the returned distribution
RECURSIVE ColumnSums(_)
ColumnSums(d) ==
    IF d = << >> THEN [long |-> 0, short |-> 0]
    ELSE [long |-> Head(d).long_liquidations + ColumnSums(Tail(d)).long,
          short |-> Head(d).short_liquidations + ColumnSums(Tail(d)).short]

C33_DistributionSumsToTotals ==
    liq.called =>
        /\ ColumnSums(liq.liquidation_distribution).long
              = liq.metrics.total_long_liquidation
        /\ ColumnSums(liq.liquidation_distribution).short
              = liq.metrics.total_short_liquidation

----------------------------------------------------------------------------
(* Counters, breaker and snapshot over a whole run (Spec) *)

\* the conservation chain of the stage counters of st for n assets
Conserved(st, n) ==
    /\ st.successful_fetches + st.failed_fetches = n
    /\ st.successful_processes + st.failed_processes = st.successful_fetches
    /\ st.successful_validations + st.failed_validations
          = st.successful_processes
    /\ st.successful_writes + st.failed_writes = st.successful_validations

\* C34: after every batch and at the end of every completed run the
\* counters satisfy the conservation chain: fetches add up to the number of
\* assets handled so far (total_assets at the end of the run), processes to
\* the successful fetches, validations to the successful processes and
\* writes to the successful validations.
C34_CountersConserved ==
    /\ pc = "merge" => Conserved(batch_stats, Len(batch))
    /\ pc \in {"batch_loop", "global"} =>
          Conserved(total_stats, Min(i, Len(assets)))
    /\ (pc = "done" /\ FetchCommonSucceeded) =>
          /\ Conserved(total_stats, Len(assets))
          /\ total_stats.total_assets = Len(assets)

\* a completed run over three assets in two batches in which one fetch
\* failed, one record was rejected and the remaining record was written
C34_Witness ==
    /\ pc = "done"
    /\ FetchCommonSucceeded
    /\ Len(assets) = 3
    /\ Len(log.batches) = 2
    /\ total_stats.failed_fetches + total_stats.failed_processes
         + total_stats.failed_validations + total_stats.failed_writes = 1
    /\ total_stats.successful_fetches >= 2

\* the asset list holds no symbol twice
NoRepeatedSymbol ==
    \A j, m \in DOMAIN assets : assets[j] = assets[m] => j = m

\* C35: in a run of process_batches over an asset list without repeated
\* symbols (failure_threshold >= 2), a record_failure only ever reaches a
\* key that had none before, so every key has at most one failure, no
\* breaker opens, and no fetch or process operation is circuit-suppressed.
C35_NoBreakerOpensInOneRun ==
    [][NoRepeatedSymbol =>
          /\ \A k \in Keys :
               /\ (failures'[k] > failures[k]
                     \/ last_failure_time'[k] # last_failure_time[k]) =>
                       /\ failures[k] = 0
                       /\ last_failure_time[k] = 0
                       /\ failures'[k] = 1
               /\ failures'[k] <= 1
               /\ ~is_open'[k]
          /\ \A j \in DOMAIN log'.fetched : log'.fetched[j] # "suppressed"
          /\ \A j \in DOMAIN log'.proceeded :
               log'.proceeded[j] # "suppressed"]_vars

\* a finished run over two different assets in which an operation failed
\* and left one failure on its key
C35_Witness ==
    /\ pc = "done"
    /\ NoRepeatedSymbol
    /\ Len(assets) >= 2
    /\ \E k \in Keys : failures[k] = 1 /\ last_failure_time[k] >= Epoch

\* C39: process_asset_data does not modify the shared position snapshot:
\* every entry of the snapshot is, at any point of the run, the entry that
\* FETCH_COMMON obtained.
C39_SnapshotUnchanged ==
    ~position_data.is_none =>
        \A a \in DOMAIN position_data.data :
            position_data.data[a] = Entry(a)

----------------------------------------------------------------------------
(* Suppressed attempts (SpecFetch) *)

\* C36: a circuit-suppressed attempt (can_proceed returned false) changes
\* no CircuitBreaker state; last_failure_time moves only when a fetch that
\* was let through fails, and an attempt is suppressed only while the key is
\* open and at most reset_timeout has passed since that time, so the key is
\* passable again once reset_timeout has elapsed since its last genuine
\* failure, however many attempts were suppressed in between.
C36_SuppressedAttemptLeavesBreaker ==
    [][/\ (call'.op = "fetch_asset_data" /\ ~log'.fetch.invoked) =>
             /\ UNCHANGED cbvars
             /\ ~call'.ret
             /\ is_open[call'.key]
             /\ now - last_failure_time[call'.key] <= reset_timeout
       /\ last_failure_time' # last_failure_time =>
             /\ call'.op = "fetch_asset_data"
             /\ log'.fetch.invoked
             /\ ~call'.ret]_vars

\* an attempt suppressed some time after the failure that opened the key
C36_Witness ==
    /\ call.op = "fetch_asset_data"
    /\ ~log.fetch.invoked
    /\ call.was_open
    /\ call.elapsed > 0
    /\ is_open[call.key]
    /\ now - last_failure_time[call.key] = call.elapsed

----------------------------------------------------------------------------
(* One key over several timeouts (SpecHistory) *)

\* C37: a key that starts closed and whose record_failure calls come each
\* more than reset_timeout after the previous one never opens, however many
\* failures occur (failure_threshold >= 2): its count stays at most 1 and
\* can_proceed returns true at every point of such a history.
C37_SpacedFailuresNeverOpen ==
    log.history.spaced =>
        /\ ~is_open[HistoryKey]
        /\ failures[HistoryKey] <= 1
        /\ call.op = "can_proceed" => call.ret

\* can_proceed answers after failure_threshold failures that were each more
\* than reset_timeout apart
C37_Witness ==
    /\ log.history.spaced
    /\ log.history.recorded >= failure_threshold
    /\ call.op = "can_proceed"
    /\ call.ret
    /\ failures[HistoryKey] = 1

\* C38: after can_proceed has let a timed-out open key through, a failure
\* of the probe does not reopen the breaker (failure_threshold >= 2): the
\* key is open again, and can_proceed false again, only after
\* failure_threshold record_failure calls that came each within
\* reset_timeout of the previous one.
C38_ReopensOnlyAfterThreshold ==
    log.history.passed =>
        /\ is_open[HistoryKey] => log.history.peak >= failure_threshold
        /\ (call.op = "can_proceed" /\ ~call.ret) =>
              log.history.peak >= failure_threshold
        /\ (call.op = "record_failure" /\ log.history.peak <= 1) =>
              ~is_open[HistoryKey]

\* the key was let through, its probe failed, and it is refused again after
\* exactly failure_threshold failures in a row
C38_Witness ==
    /\ log.history.passed
    /\ log.history.peak = failure_threshold
    /\ log.history.streak = failure_threshold
    /\ call.op = "can_proceed"
    /\ ~call.ret

====
